---- MODULE Spec2Model ----
(***************************************************************************)
(* The turn/round state machine of the "Sketch it!" party game.  The       *)
(* repository holds two variants of the top-level component:               *)
(*   "HOME"  - src/App.tsx, phases HOME/PLAYING/GAME_OVER with a sub-phase, *)
(*   "LOBBY" - src/unnamed/part_000, one flat phase.                       *)
(* Both are React components.  One step of the model is one event handler  *)
(* (or one interval callback, or the continuation of the prompt fetch)     *)
(* together with the render it causes and the effects of that render: the  *)
(* countdown effect is applied as part of the step that changes the value  *)
(* it depends on.                                                          *)
(***************************************************************************)
EXTENDS Integers, Sequences, FiniteSets, TLC

\* ------------------------------------------------------------------ constants
DEFAULT_TIME == 60
SPEED_BONUS_THRESHOLD == 30
\* The source sets MAX_ROUNDS = 5 (src/App.tsx:8, part_000:7).  Every guard of
\* the code reads gameState.maxRounds, which is initialised from this
\* definition; the model runs matches of this many rounds.
MAX_ROUNDS == 2

\* ------------------------------------------------- environment (input) sets
\* Ids a roster can hold; Math.random() ids are opaque, so the least id that is
\* free stands for "a fresh id".
PlayerIds == <<"p1", "p2", "p3">>
NameOf == [p1 |-> "Alice", p2 |-> "Bob", p3 |-> "Cy"]
\* Timer values at which the players press a button of the Drawing screen.
UserTimes == {60, 30, 29, 1}
\* Lists the external prompt generator may resolve with.
AIResponses ==
  { <<[word |-> "Cat", category |-> "Animals", difficulty |-> "easy"]>>,
    <<[word |-> "Library", category |-> "Places", difficulty |-> "medium"]>>,
    <<[word |-> "Gravity", category |-> "Abstract", difficulty |-> "hard"]>> }

\* What a call of the external generator can do: the client constructor throws,
\* the request fails, the response is not JSON, or it answers with a list.
GeneratorOutcomes ==
  {[kind |-> "constructorThrows"], [kind |-> "requestFails"],
   [kind |-> "unparsable"]}
  \cup {[kind |-> "answers", list |-> l] : l \in AIResponses}
\* Texts typed into a word list of the bank editor, as sequences of tokens:
\* "," and "\n" separate, " " is white space, any other token is a word.
BankEdits ==
  { [difficulty |-> "easy", text |-> <<"Cat">>],
    [difficulty |-> "easy", text |-> <<" ", "Cat", ",", ",", " ", "Sun", " ", "\n">>],
    [difficulty |-> "medium", text |-> <<"Robot", ",", " ">>],
    [difficulty |-> "hard", text |-> <<>>],
    [difficulty |-> "hard", text |-> <<"\n", "Gravity">>] }

\* Names typed into the name field of the bank editor.
BankNames == {"Animals"}
\* Ids handleCreateSet can draw; Math.random() ids are opaque, so the first
\* one that no bank holds stands for "a fresh id".
BankIds == <<"b1", "b2", "b3", "b4">>
\* The players keep at most this many banks.
MaxBanks == 2

Null == [null |-> TRUE]
Undefined == [undefined |-> TRUE]
NoInterval == 0

VARIABLES
  variant,            \* which of the two components is running
  gameState,          \* useState<GameState>
  allPrompts,         \* useState<Prompt[]>
  selectedGuesserIds, \* useState<Set<string>>
  timerInterval,      \* useRef: timerInterval.current
  intervals,          \* ids of the setInterval timers that are armed
  fetching,           \* TRUE while the generatePrompts promise is pending
  wordSets,           \* useState<WordSet[]>            (HOME variant)
  selectedSetId,      \* useState<string>               (HOME variant)
  isSettingsOpen,     \* useState<boolean>              (HOME variant)
  localStorage        \* the browser's key-value store   (HOME variant)

vars == <<variant, gameState, allPrompts, selectedGuesserIds, timerInterval,
          intervals, fetching, wordSets, selectedSetId, isSettingsOpen,
          localStorage>>

bankVars == <<wordSets, selectedSetId, isSettingsOpen, localStorage>>

\* ------------------------------------------------------------------- helpers
Range(s) == {s[i] : i \in 1..Len(s)}

\* The phase as the spec names it: the sub-phase while PLAYING, else the phase.
Stage ==
  IF variant = "HOME" /\ gameState.phase = "PLAYING"
  THEN gameState.subPhase
  ELSE gameState.phase

NumPlayers == Len(gameState.players)
Scores == [i \in 1..NumPlayers |-> gameState.players[i].score]
Drawer(gs) == gs.players[gs.currentPlayerIndex + 1]

\* ------------------------------------------------------------- localStorage
\* The store of a browser in which the application never ran.
NothingStored ==
  [sketchit_wordsets_v2 |-> Null, sketchit_selected_set_id |-> Null,
   sketchit_wordsource |-> Null]

\* JSON.stringify and JSON.parse on word banks: the text of a value, and
\* the value of a text.
stringify(value) == [json |-> value]
parse(text) == text.json

\* An item of the store: the text that was set under a key.
Item(text) == [item |-> text]

\* localStorage.getItem(key) || fallback: the fallback also stands in for an
\* empty text.
getItemOr(store, key, fallback) ==
  IF store[key] = Null THEN fallback
  ELSE IF store[key].item = "" THEN fallback
  ELSE store[key].item

\* Faulty variant: the effect on selectedSetId is missing.
syncToStorage_noSelected(store, prev, next) ==
  [sketchit_wordsets_v2 |->
     IF next.wordSets # prev.wordSets THEN Item(stringify(next.wordSets))
     ELSE store.sketchit_wordsets_v2,
   sketchit_selected_set_id |-> store.sketchit_selected_set_id,
   sketchit_wordsource |->
     IF next.wordSource # prev.wordSource THEN Item(next.wordSource)
     ELSE store.sketchit_wordsource]

\* The three "Sync to Storage" effects after a render: each writes its key
\* when its dependency changed; prev and next hold wordSets, selectedSetId
\* and gameState.wordSource of the last and of the new render.
syncToStorage(store, prev, next) ==
  [sketchit_wordsets_v2 |->
     IF next.wordSets # prev.wordSets THEN Item(stringify(next.wordSets))
     ELSE store.sketchit_wordsets_v2,
   sketchit_selected_set_id |->
     IF next.selectedSetId # prev.selectedSetId THEN Item(next.selectedSetId)
     ELSE store.sketchit_selected_set_id,
   sketchit_wordsource |->
     IF next.wordSource # prev.wordSource THEN Item(next.wordSource)
     ELSE store.sketchit_wordsource]

\* The same effects after the first render, when each of them runs.
syncOnMount(first) ==
  [sketchit_wordsets_v2 |-> Item(stringify(first.wordSets)),
   sketchit_selected_set_id |-> Item(first.selectedSetId),
   sketchit_wordsource |-> Item(first.wordSource)]

\* The built-in bank loadWordSets returns when nothing is stored.
loadWordSets ==
  << [id |-> "default", name |-> "Classic Pack",
      easy |-> <<"Cat", "Sun", "House", "Apple", "Pizza">>,
      medium |-> <<"Robot", "Skateboard", "Bicycle", "Galaxy">>,
      hard |-> <<"Dinosaur", "Internet", "Gravity", "Library">>] >>

\* loadWordSets(): the stored banks, or the built-in one.
loadWordSetsFrom(store) ==
  IF store.sketchit_wordsets_v2 # Null
  THEN parse(store.sketchit_wordsets_v2.item)
  ELSE loadWordSets

InitialHomeState ==
  [phase |-> "HOME", subPhase |-> "null", players |-> <<>>,
   currentPlayerIndex |-> 0, currentPrompt |-> Null, promptChoices |-> <<>>,
   timer |-> DEFAULT_TIME, rounds |-> 1, maxRounds |-> MAX_ROUNDS,
   wordSource |-> getItemOr(NothingStored, "sketchit_wordsource", "ai"),
   history |-> <<>>]

InitialLobbyState ==
  [players |-> <<>>, currentPlayerIndex |-> 0, currentPrompt |-> Null,
   promptChoices |-> <<>>, phase |-> "LOBBY", timer |-> DEFAULT_TIME,
   rounds |-> 1, maxRounds |-> MAX_ROUNDS, history |-> <<>>]

Mounted(v) ==
  /\ variant = v
  /\ gameState = IF v = "HOME" THEN InitialHomeState ELSE InitialLobbyState
  /\ allPrompts = <<>>
  /\ selectedGuesserIds = {}
  /\ timerInterval = NoInterval
  /\ intervals = {}
  /\ fetching = FALSE
  /\ wordSets = loadWordSetsFrom(NothingStored)
  /\ selectedSetId = getItemOr(NothingStored, "sketchit_selected_set_id", "default")
  /\ isSettingsOpen = FALSE
  /\ localStorage =
       IF v = "HOME"
       THEN syncOnMount([wordSets |-> wordSets, selectedSetId |-> selectedSetId,
                         wordSource |-> gameState.wordSource])
       ELSE NothingStored

Init == \E v \in {"HOME", "LOBBY"} : Mounted(v)

\* ------------------------------------------------------- countdown (effects)
\* setInterval returns an id no armed timer has.
NewIntervalId(live) == CHOOSE i \in 1..(Cardinality(live) + 1) : i \notin live

\* clearInterval(timerInterval.current), guarded by "if (timerInterval.current)".
clearInterval(live, ref) == live \ {ref}

\* Faulty variant: the effect returns no cleanup and its else-branch clears nothing.
timerEffectHome_noCleanup(prev, next, ref, live) ==
  IF prev.subPhase = next.subPhase
  THEN [ref |-> ref, live |-> live]
  ELSE IF next.subPhase = "DRAWING" /\ next.timer > 0
       THEN LET id == NewIntervalId(live)
            IN [ref |-> id, live |-> live \cup {id}]
       ELSE [ref |-> ref, live |-> live]

\* useEffect(..., [gameState.subPhase]) of src/App.tsx: when the sub-phase of
\* the new render differs from the previous one, the previous cleanup runs and
\* then the body.
timerEffectHome(prev, next, ref, live) ==
  IF prev.subPhase = next.subPhase
  THEN [ref |-> ref, live |-> live]
  ELSE LET cleaned == clearInterval(live, ref)
       IN IF next.subPhase = "DRAWING" /\ next.timer > 0
          THEN LET id == NewIntervalId(cleaned)
               IN [ref |-> id, live |-> cleaned \cup {id}]
          ELSE [ref |-> ref, live |-> clearInterval(cleaned, ref)]

\* Faulty variant: the effect of part_000 returns no cleanup and its
\* else-branch clears nothing.
timerEffectLobby_noCleanup(prev, next, ref, live) ==
  IF prev.phase = next.phase
  THEN [ref |-> ref, live |-> live]
  ELSE IF next.phase = "DRAWING" /\ next.timer > 0
       THEN LET id == NewIntervalId(live)
            IN [ref |-> id, live |-> live \cup {id}]
       ELSE [ref |-> ref, live |-> live]

\* useEffect(..., [gameState.phase]) of part_000.
timerEffectLobby(prev, next, ref, live) ==
  IF prev.phase = next.phase
  THEN [ref |-> ref, live |-> live]
  ELSE LET cleaned == clearInterval(live, ref)
       IN IF next.phase = "DRAWING" /\ next.timer > 0
          THEN LET id == NewIntervalId(cleaned)
               IN [ref |-> id, live |-> cleaned \cup {id}]
          ELSE [ref |-> ref, live |-> clearInterval(cleaned, ref)]

\* The render that follows a handler: gameState becomes next, and the countdown
\* effect sees the timers the handler left armed.
Commit(next, live) ==
  LET e == IF variant = "HOME"
           THEN timerEffectHome(gameState, next, timerInterval, live)
           ELSE timerEffectLobby(gameState, next, timerInterval, live)
  IN /\ gameState' = next
     /\ timerInterval' = e.ref
     /\ intervals' = e.live

\* The storage effects of the render that follows a handler of src/App.tsx.
StorageSynced ==
  localStorage' =
    syncToStorage(localStorage,
                  [wordSets |-> wordSets, selectedSetId |-> selectedSetId,
                   wordSource |-> gameState.wordSource],
                  [wordSets |-> wordSets', selectedSetId |-> selectedSetId',
                   wordSource |-> gameState'.wordSource])

\* ------------------------------------------------------------ prompt choices
Filter(pool, ds) == SelectSeq(pool, LAMBDA p : p.difficulty \in ds)

\* arr[Math.floor(Math.random() * arr.length)]: any element, undefined if empty.
rnd(arr) == IF Len(arr) = 0 THEN {Undefined} ELSE Range(arr)

\* Faulty variant: slice(0, 2).
FirstThree_two(pool) == SubSeq(pool, 1, IF Len(pool) < 2 THEN Len(pool) ELSE 2)

\* available.slice(0, 3)
FirstThree(pool) == SubSeq(pool, 1, IF Len(pool) < 3 THEN Len(pool) ELSE 3)

\* Faulty variant: a bank of exactly three words is sampled too.
setupTurnChoices_sampleThree(pool, wordSource) ==
  IF wordSource = "ai" \/ Len(pool) >= 3
  THEN LET easy == Filter(pool, {"easy", "custom"})
           med == Filter(pool, {"medium"})
           hard == Filter(pool, {"hard"})
       IN { <<a, b, c>> : a \in rnd(IF Len(easy) > 0 THEN easy ELSE pool),
                          b \in rnd(IF Len(med) > 0 THEN med ELSE pool),
                          c \in rnd(IF Len(hard) > 0 THEN hard ELSE pool) }
  ELSE { FirstThree(pool) }

\* The choice lists setupTurn can compute (src/App.tsx).
setupTurnChoices(pool, wordSource) ==
  IF wordSource = "ai" \/ Len(pool) > 3
  THEN LET easy == Filter(pool, {"easy", "custom"})
           med == Filter(pool, {"medium"})
           hard == Filter(pool, {"hard"})
       IN { <<a, b, c>> : a \in rnd(IF Len(easy) > 0 THEN easy ELSE pool),
                          b \in rnd(IF Len(med) > 0 THEN med ELSE pool),
                          c \in rnd(IF Len(hard) > 0 THEN hard ELSE pool) }
  ELSE { FirstThree(pool) }

\* Faulty variant: setting up a turn starts the history anew.
setupTurn_clearsHistory(prev, playerIdx, roundNum, choices) ==
  [prev EXCEPT !.phase = "PLAYING", !.subPhase = "PRE_TURN",
               !.currentPlayerIndex = playerIdx, !.currentPrompt = Null,
               !.promptChoices = choices, !.timer = DEFAULT_TIME,
               !.rounds = roundNum, !.history = <<>>]

setupTurn(prev, playerIdx, roundNum, choices) ==
  [prev EXCEPT !.phase = "PLAYING", !.subPhase = "PRE_TURN",
               !.currentPlayerIndex = playerIdx, !.currentPrompt = Null,
               !.promptChoices = choices, !.timer = DEFAULT_TIME,
               !.rounds = roundNum]

\* The choice lists startTurnSetup can compute (part_000).
startTurnSetupChoices(promptsList) ==
  LET easy == Filter(promptsList, {"easy"})
      medium == Filter(promptsList, {"medium"})
      hard == Filter(promptsList, {"hard"})
  IN { <<a, b, c>> : a \in rnd(IF Len(easy) > 0 THEN easy ELSE promptsList),
                     b \in rnd(IF Len(medium) > 0 THEN medium ELSE promptsList),
                     c \in rnd(IF Len(hard) > 0 THEN hard ELSE promptsList) }

\* Faulty variant: the timer of the last turn is carried into the next.
startTurnSetup_keepsTimer(prev, playerIdx, roundNum, choices) ==
  [prev EXCEPT !.phase = "PRE_TURN", !.currentPlayerIndex = playerIdx,
               !.currentPrompt = Null, !.promptChoices = choices,
               !.rounds = roundNum]

startTurnSetup(prev, playerIdx, roundNum, choices) ==
  [prev EXCEPT !.phase = "PRE_TURN", !.currentPlayerIndex = playerIdx,
               !.currentPrompt = Null, !.promptChoices = choices,
               !.timer = DEFAULT_TIME, !.rounds = roundNum]

\* ------------------------------------------ src/unnamed/part_002 (gemini.ts)
fallbackPrompts ==
  << [word |-> "Cat", category |-> "Animals", difficulty |-> "easy"],
     [word |-> "Pizza", category |-> "Food", difficulty |-> "easy"],
     [word |-> "House", category |-> "Objects", difficulty |-> "easy"],
     [word |-> "Skateboarding", category |-> "Action", difficulty |-> "medium"],
     [word |-> "Eiffel Tower", category |-> "Landmark", difficulty |-> "medium"],
     [word |-> "Library", category |-> "Places", difficulty |-> "medium"],
     [word |-> "Gravity", category |-> "Abstract", difficulty |-> "hard"],
     [word |-> "Internet", category |-> "Technology", difficulty |-> "hard"],
     [word |-> "Metamorphosis", category |-> "Biology", difficulty |-> "hard"] >>

\* Repaired variant: the client is constructed inside the try block.
generatePrompts_guarded(outcome) ==
  IF outcome.kind = "answers"
  THEN [settled |-> "resolved", value |-> outcome.list]
  ELSE [settled |-> "resolved", value |-> fallbackPrompts]

\* generatePrompts: "new GoogleGenAI(...)" runs before the try block, so an
\* exception of the constructor rejects the promise; an exception of the
\* request or of JSON.parse is caught and answered with the fallback list.
generatePrompts(outcome) ==
  IF outcome.kind = "constructorThrows"
  THEN [settled |-> "rejected", value |-> <<>>]
  ELSE IF outcome.kind = "answers"
  THEN [settled |-> "resolved", value |-> outcome.list]
  ELSE [settled |-> "resolved", value |-> fallbackPrompts]

\* --------------------------------------------------- environment of a match
\* The turn being played, counted from 0 over the whole match.
TurnNo == (gameState.rounds - 1) * NumPlayers + gameState.currentPlayerIndex

\* How many turns of a match the players start: with a pool of more than four
\* prompts they stop before the first choice; with a word bank they play the
\* first turn; with a generated pool two players play the match to its end
\* and a larger party plays its first round.
TurnsPlayed ==
  IF Len(allPrompts) > 4 THEN 0
  ELSE IF variant = "HOME" /\ gameState.wordSource = "custom" THEN 1
  ELSE IF NumPlayers = 2 THEN NumPlayers * gameState.maxRounds
  ELSE NumPlayers

FreshIds ==
  {i \in 1..Len(PlayerIds) :
     /\ PlayerIds[i] \notin {gameState.players[k].id : k \in 1..NumPlayers}
     /\ PlayerIds[i] \notin selectedGuesserIds}

\* Matches with generated prompts are played with the built-in bank untouched
\* (an edited bank is played in custom mode).
BankPlayed == gameState.wordSource = "ai" => wordSets = loadWordSets

\* ================================================================ src/App.tsx
\* Faulty variant: the home screen is rendered whatever the phase.
HomeScreen_anyPhase == variant = "HOME" /\ ~isSettingsOpen

\* renderHome; the settings dialog covers the whole screen while it is open.
HomeScreen == variant = "HOME" /\ gameState.phase = "HOME" /\ ~isSettingsOpen
Playing(sub) ==
  variant = "HOME" /\ gameState.phase = "PLAYING" /\ gameState.subPhase = sub

addPlayerUpdate(prev, id, name) ==
  [prev EXCEPT !.players = Append(@, [id |-> id, name |-> name, score |-> 0])]

\* newPlayerName is the text typed; "" stands for a blank input.
addPlayer ==
  /\ HomeScreen
  /\ FreshIds # {}
  /\ LET id == PlayerIds[CHOOSE i \in FreshIds : \A j \in FreshIds : i <= j]
     IN \E newPlayerName \in {"", NameOf[id]} :
          IF newPlayerName = ""
          THEN UNCHANGED <<gameState, timerInterval, intervals>>
          ELSE Commit(addPlayerUpdate(gameState, id, newPlayerName), intervals)
  /\ UNCHANGED <<variant, allPrompts, selectedGuesserIds, fetching, bankVars>>

removePlayerUpdate(prev, id) ==
  [prev EXCEPT !.players = SelectSeq(@, LAMBDA p : p.id # id)]

\* The model removes the player added last.
removePlayer ==
  /\ HomeScreen
  /\ NumPlayers > 0
  /\ Commit(removePlayerUpdate(gameState, gameState.players[NumPlayers].id),
            intervals)
  /\ UNCHANGED <<variant, allPrompts, selectedGuesserIds, fetching, bankVars>>

activeSet ==
  LET found == SelectSeq(wordSets, LAMBDA s : s.id = selectedSetId)
  IN IF Len(found) > 0 THEN found[1]
     ELSE IF Len(wordSets) > 0 THEN wordSets[1]
     ELSE [id |-> "", name |-> "", easy |-> <<>>, medium |-> <<>>, hard |-> <<>>]

\* Faulty variant: the words of the hard list are tagged medium.
customPrompts_hardAsMedium ==
  [i \in 1..Len(activeSet.easy) |->
     [word |-> activeSet.easy[i], category |-> "Easy", difficulty |-> "easy"]]
  \o [i \in 1..Len(activeSet.medium) |->
     [word |-> activeSet.medium[i], category |-> "Medium", difficulty |-> "medium"]]
  \o [i \in 1..Len(activeSet.hard) |->
     [word |-> activeSet.hard[i], category |-> "Hard", difficulty |-> "medium"]]

customPrompts ==
  [i \in 1..Len(activeSet.easy) |->
     [word |-> activeSet.easy[i], category |-> "Easy", difficulty |-> "easy"]]
  \o [i \in 1..Len(activeSet.medium) |->
     [word |-> activeSet.medium[i], category |-> "Medium", difficulty |-> "medium"]]
  \o [i \in 1..Len(activeSet.hard) |->
     [word |-> activeSet.hard[i], category |-> "Hard", difficulty |-> "hard"]]

\* Faulty variant: a single player may start.
tooFewPlayers_one(gs) == Len(gs.players) < 1

\* "if (gameState.players.length < 2) return;"
tooFewPlayers(gs) == Len(gs.players) < 2

\* Faulty variant: two words are enough.
bankTooSmall_two(prompts) == Len(prompts) < 2

\* "if (customPrompts.length < 3)"
bankTooSmall(prompts) == Len(prompts) < 3

\* startMatch up to its await (ai) or to its end (custom).
startMatch ==
  /\ HomeScreen
  /\ BankPlayed
  /\ IF tooFewPlayers(gameState)
     THEN UNCHANGED vars
     ELSE IF gameState.wordSource = "ai"
     THEN /\ Commit([gameState EXCEPT !.phase = "PLAYING",
                                      !.subPhase = "GETTING_PROMPTS"], intervals)
          /\ fetching' = TRUE
          /\ UNCHANGED <<variant, allPrompts, selectedGuesserIds, bankVars>>
     ELSE IF bankTooSmall(customPrompts)
     THEN /\ isSettingsOpen' = TRUE
          /\ UNCHANGED <<variant, gameState, allPrompts, selectedGuesserIds,
                         timerInterval, intervals, fetching, wordSets,
                         selectedSetId, localStorage>>
     ELSE /\ allPrompts' = customPrompts
          /\ \E choices \in setupTurnChoices(customPrompts, gameState.wordSource) :
               Commit(setupTurn(gameState, 0, 1, choices), intervals)
          /\ UNCHANGED <<variant, selectedGuesserIds, fetching, bankVars>>

\* The rest of startMatch, run when the promise of generatePrompts(60)
\* settles; the closure still holds the wordSource 'ai' it was started with.
\* When the promise rejects, the await throws and startMatch ends there.
startMatchResolved ==
  /\ variant = "HOME"
  /\ fetching
  /\ \E outcome \in GeneratorOutcomes :
       LET r == generatePrompts(outcome)
       IN IF r.settled = "rejected"
          THEN UNCHANGED <<gameState, allPrompts, timerInterval, intervals>>
          ELSE /\ allPrompts' = r.value
               /\ \E choices \in setupTurnChoices(r.value, "ai") :
                    Commit(setupTurn(gameState, 0, 1, choices), intervals)
  /\ fetching' = FALSE
  /\ UNCHANGED <<variant, selectedGuesserIds, bankVars>>

\* READY button of the PRE_TURN screen.
readyHome ==
  /\ Playing("PRE_TURN")
  /\ Commit([gameState EXCEPT !.subPhase = "CHOOSE_PROMPT"], intervals)
  /\ UNCHANGED <<variant, allPrompts, selectedGuesserIds, fetching, bankVars>>

selectPromptUpdate(prev, prompt) ==
  [prev EXCEPT !.currentPrompt = prompt, !.subPhase = "DRAWING"]

selectPrompt ==
  /\ Playing("CHOOSE_PROMPT")
  /\ TurnNo < TurnsPlayed
  /\ \E prompt \in Range(gameState.promptChoices) :
       Commit(selectPromptUpdate(gameState, prompt), intervals)
  /\ UNCHANGED <<variant, allPrompts, selectedGuesserIds, fetching, bankVars>>

FailedEntry(prev) ==
  [playerName |-> Drawer(prev).name,
   word |-> IF prev.currentPrompt \in {Null, Undefined} THEN ""
            ELSE prev.currentPrompt.word,
   wasCorrect |-> FALSE, winners |-> <<>>]

\* Faulty variant: the timeout is detected one tick late.
tickUpdaterHome_late(prev, ref, live) ==
  IF prev.timer <= 0
  THEN [gs |-> [prev EXCEPT !.timer = 0,
                            !.history = Append(@, FailedEntry(prev)),
                            !.subPhase = "POST_TURN"],
        live |-> clearInterval(live, ref)]
  ELSE [gs |-> [prev EXCEPT !.timer = @ - 1], live |-> live]

\* The updater the interval callback passes to setGameState, with the timers
\* it leaves armed.
tickUpdaterHome(prev, ref, live) ==
  IF prev.timer <= 1
  THEN [gs |-> [prev EXCEPT !.timer = 0,
                            !.history = Append(@, FailedEntry(prev)),
                            !.subPhase = "POST_TURN"],
        live |-> clearInterval(live, ref)]
  ELSE [gs |-> [prev EXCEPT !.timer = @ - 1], live |-> live]

\* One firing of an armed interval.
tickHome ==
  /\ variant = "HOME"
  /\ \E id \in intervals :
       LET r == tickUpdaterHome(gameState, timerInterval, intervals)
       IN Commit(r.gs, r.live)
  /\ UNCHANGED <<variant, allPrompts, selectedGuesserIds, fetching, bankVars>>

\* Faulty variant: the selection of the last confirmation is kept.
confirmSolvedSelection_kept(prev) == prev

\* setSelectedGuesserIds(new Set())
confirmSolvedSelection(prev) == {}

confirmSolved ==
  /\ Playing("DRAWING")
  /\ gameState.timer \in UserTimes
  /\ selectedGuesserIds' = confirmSolvedSelection(selectedGuesserIds)
  /\ Commit([gameState EXCEPT !.subPhase = "CONFIRM_SCORE"],
            clearInterval(intervals, timerInterval))
  /\ UNCHANGED <<variant, allPrompts, fetching, bankVars>>

Toggle(set, id) == IF id \in set THEN set \ {id} ELSE set \cup {id}

OtherPlayerIds ==
  {gameState.players[i].id :
     i \in (1..NumPlayers) \ {gameState.currentPlayerIndex + 1}}

\* A button of the CONFIRM_SCORE screen: one per player other than the drawer.
toggleGuesserHome ==
  /\ Playing("CONFIRM_SCORE")
  /\ \E id \in OtherPlayerIds : selectedGuesserIds' = Toggle(selectedGuesserIds, id)
  /\ UNCHANGED <<variant, gameState, allPrompts, timerInterval, intervals,
                 fetching, bankVars>>

\* Faulty variant: going back restarts the countdown from the default.
backToDrawingUpdate_restart(prev) ==
  [prev EXCEPT !.subPhase = "DRAWING", !.timer = DEFAULT_TIME]

backToDrawingUpdate(prev) == [prev EXCEPT !.subPhase = "DRAWING"]

\* Back button of the CONFIRM_SCORE screen.
backToDrawing ==
  /\ Playing("CONFIRM_SCORE")
  /\ Commit(backToDrawingUpdate(gameState), intervals)
  /\ UNCHANGED <<variant, allPrompts, selectedGuesserIds, fetching, bankVars>>

\* Faulty variant: the skipped turn leaves no entry.
skipTurnUpdate_noEntry(prev) == [prev EXCEPT !.subPhase = "POST_TURN"]

skipTurnUpdate(prev) ==
  [prev EXCEPT !.history = Append(@, FailedEntry(prev)),
               !.subPhase = "POST_TURN"]

skipTurn ==
  /\ Playing("DRAWING")
  /\ gameState.timer \in UserTimes
  /\ Commit(skipTurnUpdate(gameState), clearInterval(intervals, timerInterval))
  /\ UNCHANGED <<variant, allPrompts, selectedGuesserIds, fetching, bankVars>>

\* ------------------------------------------------------------------ scoring
\* Faulty variant: the boundary value misses the bonus.
isSpeedBonus_strict(timer) == timer > SPEED_BONUS_THRESHOLD

isSpeedBonus(timer) == timer >= SPEED_BONUS_THRESHOLD

DifficultyOf(prompt) ==
  IF prompt \in {Null, Undefined} THEN "easy" ELSE prompt.difficulty

\* Faulty variant: a custom prompt is paid like an easy one.
diffMap_customEasy == [easy |-> 1, medium |-> 2, hard |-> 3, custom |-> 1]

diffMap == [easy |-> 1, medium |-> 2, hard |-> 3, custom |-> 2]

\* Faulty variant: the points depend on the word that was drawn.
basePointsHome_byWord(prompt) ==
  IF prompt \notin {Null, Undefined} /\ prompt.word = "Gravity"
  THEN 3
  ELSE diffMap[DifficultyOf(prompt)]

\* diffMap[gameState.currentPrompt?.difficulty || 'easy']
basePointsHome(prompt) == diffMap[DifficultyOf(prompt)]

\* Faulty variant: the drawer is paid the speed bonus too.
scoreBonusHome_drawerSpeed(isDrawer, guessed, anyGuesser, base, speed) ==
  (IF isDrawer /\ anyGuesser THEN base + (IF speed THEN 1 ELSE 0) ELSE 0)
  + (IF guessed THEN base + (IF speed THEN 1 ELSE 0) ELSE 0)

\* What one player gains in a submit (the "bonus" of the players.map callback).
scoreBonusHome(isDrawer, guessed, anyGuesser, base, speed) ==
  (IF isDrawer /\ anyGuesser THEN base ELSE 0)
  + (IF guessed THEN base + (IF speed THEN 1 ELSE 0) ELSE 0)

NamesOf(ps) == [i \in 1..Len(ps) |-> ps[i].name]

\* Faulty variant: the winners are listed from the end of the roster.
winnersOf_reversed(prev, selected) ==
  LET w == NamesOf(SelectSeq(prev.players, LAMBDA p : p.id \in selected))
  IN [i \in 1..Len(w) |-> w[Len(w) + 1 - i]]

\* prev.players.filter(p => selectedGuesserIds.has(p.id)).map(p => p.name)
winnersOf(prev, selected) ==
  NamesOf(SelectSeq(prev.players, LAMBDA p : p.id \in selected))

\* Faulty variant: the turn's points replace the score instead of adding to it.
submitScoreUpdate_overwrite(prev, timer, prompt, selected) ==
  LET base == basePointsHome(prompt)
      nextPlayers ==
        [i \in 1..Len(prev.players) |->
           LET p == prev.players[i]
           IN [p EXCEPT !.score =
                 scoreBonusHome(p.id = Drawer(prev).id, p.id \in selected,
                                selected # {}, base, isSpeedBonus(timer))]]
      entry == [playerName |-> Drawer(prev).name,
                word |-> IF prev.currentPrompt \in {Null, Undefined} THEN ""
                         ELSE prev.currentPrompt.word,
                wasCorrect |-> selected # {},
                winners |-> winnersOf(prev, selected)]
  IN [prev EXCEPT !.players = nextPlayers,
                  !.history = Append(@, entry),
                  !.subPhase = "POST_TURN"]

\* The updater of submitScore; timer and prompt are the values of the render
\* the Submit button belongs to, selected is selectedGuesserIds of that render.
submitScoreUpdate(prev, timer, prompt, selected) ==
  LET base == basePointsHome(prompt)
      nextPlayers ==
        [i \in 1..Len(prev.players) |->
           LET p == prev.players[i]
           IN [p EXCEPT !.score =
                 @ + scoreBonusHome(p.id = Drawer(prev).id, p.id \in selected,
                                    selected # {}, base, isSpeedBonus(timer))]]
      entry == [playerName |-> Drawer(prev).name,
                word |-> IF prev.currentPrompt \in {Null, Undefined} THEN ""
                         ELSE prev.currentPrompt.word,
                wasCorrect |-> selected # {},
                winners |-> winnersOf(prev, selected)]
  IN [prev EXCEPT !.players = nextPlayers,
                  !.history = Append(@, entry),
                  !.subPhase = "POST_TURN"]

submitScore ==
  /\ Playing("CONFIRM_SCORE")
  /\ Commit(submitScoreUpdate(gameState, gameState.timer,
                              gameState.currentPrompt, selectedGuesserIds),
            intervals)
  /\ UNCHANGED <<variant, allPrompts, selectedGuesserIds, fetching, bankVars>>

\* ------------------------------------------------------------ turn sequencing
\* Faulty variant: the index is not wrapped.
nextIdxOf_nowrap(gs) == gs.currentPlayerIndex + 1

nextIdxOf(gs) == (gs.currentPlayerIndex + 1) % Len(gs.players)

\* Faulty variant: the wrapped index is stored when the round ends.
roundEndUpdate_wrapped(prev) ==
  [prev EXCEPT !.subPhase = "ROUND_LEADERBOARD", !.currentPlayerIndex = 0]

\* The updater of nextTurn's round-end branch.
roundEndUpdate(prev) == [prev EXCEPT !.subPhase = "ROUND_LEADERBOARD"]

\* CONTINUE button of the POST_TURN screen.
nextTurn ==
  /\ Playing("POST_TURN")
  /\ IF nextIdxOf(gameState) = 0
     THEN Commit(roundEndUpdate(gameState), intervals)
     ELSE \E choices \in setupTurnChoices(allPrompts, gameState.wordSource) :
            Commit(setupTurn(gameState, nextIdxOf(gameState), gameState.rounds,
                             choices), intervals)
  /\ UNCHANGED <<variant, allPrompts, selectedGuesserIds, fetching, bankVars>>

\* Faulty variant: the match ends one round early.
lastRound_early(gs) == gs.rounds + 1 >= gs.maxRounds

lastRound(gs) == gs.rounds >= gs.maxRounds

\* Button of the ROUND_LEADERBOARD screen.
nextRound ==
  /\ Playing("ROUND_LEADERBOARD")
  /\ IF lastRound(gameState)
     THEN Commit([gameState EXCEPT !.phase = "GAME_OVER", !.subPhase = "null"],
                 intervals)
     ELSE \E choices \in setupTurnChoices(allPrompts, gameState.wordSource) :
            Commit(setupTurn(gameState, 0, gameState.rounds + 1, choices),
                   intervals)
  /\ UNCHANGED <<variant, allPrompts, selectedGuesserIds, fetching, bankVars>>

\* Faulty variant: ending early puts the round counter back to 1.
endEarlyUpdate_resetsRound(prev) ==
  [prev EXCEPT !.phase = "GAME_OVER", !.subPhase = "null", !.rounds = 1]

endEarlyUpdate(prev) == [prev EXCEPT !.phase = "GAME_OVER", !.subPhase = "null"]

\* The sub-phases whose screen holds a button bound to endEarly: "End Early"
\* of PRE_TURN and "Abort" of DRAWING.
endEarlyOffered == {"PRE_TURN", "DRAWING"}

endEarly ==
  /\ \E sub \in endEarlyOffered : Playing(sub)
  /\ Playing("DRAWING") => gameState.timer \in UserTimes
  /\ Commit(endEarlyUpdate(gameState), intervals)
  /\ UNCHANGED <<variant, allPrompts, selectedGuesserIds, fetching, bankVars>>

\* Faulty variant: the rematch starts with the old scores.
restartMatchUpdate_keepsScores(prev) ==
  [prev EXCEPT !.phase = "HOME", !.subPhase = "null",
               !.currentPlayerIndex = 0, !.currentPrompt = Null,
               !.history = <<>>, !.timer = DEFAULT_TIME, !.rounds = 1]

restartMatchUpdate(prev) ==
  [prev EXCEPT !.phase = "HOME", !.subPhase = "null",
               !.players = [i \in 1..Len(prev.players) |->
                              [prev.players[i] EXCEPT !.score = 0]],
               !.currentPlayerIndex = 0, !.currentPrompt = Null,
               !.history = <<>>, !.timer = DEFAULT_TIME, !.rounds = 1]

restartMatch ==
  /\ variant = "HOME"
  /\ gameState.phase = "GAME_OVER"
  /\ Commit(restartMatchUpdate(gameState), intervals)
  /\ UNCHANGED <<variant, allPrompts, selectedGuesserIds, fetching, bankVars>>

\* Faulty variant: leaving the match keeps the sub-phase it ended in.
exitToHomeUpdate_keepsSubPhase(prev) ==
  [phase |-> "HOME", subPhase |-> "POST_TURN", players |-> <<>>,
   currentPlayerIndex |-> 0, currentPrompt |-> Null, promptChoices |-> <<>>,
   timer |-> DEFAULT_TIME, rounds |-> 1, maxRounds |-> MAX_ROUNDS,
   wordSource |-> prev.wordSource, history |-> <<>>]

exitToHomeUpdate(prev) ==
  [phase |-> "HOME", subPhase |-> "null", players |-> <<>>,
   currentPlayerIndex |-> 0, currentPrompt |-> Null, promptChoices |-> <<>>,
   timer |-> DEFAULT_TIME, rounds |-> 1, maxRounds |-> MAX_ROUNDS,
   wordSource |-> prev.wordSource, history |-> <<>>]

exitToHome ==
  /\ variant = "HOME"
  /\ gameState.phase = "GAME_OVER"
  /\ Commit(exitToHomeUpdate(gameState), intervals)
  /\ UNCHANGED <<variant, allPrompts, selectedGuesserIds, fetching, bankVars>>

\* ------------------------------------------------------ settings (src/App.tsx)
\* The gear button of renderHome.  The players open the settings before a
\* match or after leaving one with "exit", not between a restart and the
\* rematch.
openSettings ==
  /\ HomeScreen
  /\ gameState.promptChoices = <<>>
  /\ isSettingsOpen' = TRUE
  /\ UNCHANGED <<variant, gameState, allPrompts, selectedGuesserIds,
                 timerInterval, intervals, fetching, wordSets, selectedSetId,
                 localStorage>>

\* The close button and the footer button of renderSettings.  In custom mode
\* the players leave the settings with the one bank they are going to play.
closeSettings ==
  /\ variant = "HOME"
  /\ isSettingsOpen
  /\ gameState.wordSource = "custom" => Len(wordSets) = 1
  /\ isSettingsOpen' = FALSE
  /\ UNCHANGED <<variant, gameState, allPrompts, selectedGuesserIds,
                 timerInterval, intervals, fetching, wordSets, selectedSetId,
                 localStorage>>

setWordSourceUpdate(prev, ws) == [prev EXCEPT !.wordSource = ws]

\* AI PROMPTS / CUSTOM PACK buttons of renderSettings.
setWordSource ==
  /\ variant = "HOME"
  /\ isSettingsOpen
  /\ \E ws \in {"ai", "custom"} :
       Commit(setWordSourceUpdate(gameState, ws), intervals)
  /\ UNCHANGED <<variant, allPrompts, selectedGuesserIds, fetching, wordSets,
                 selectedSetId, isSettingsOpen>>
  /\ StorageSynced

Separators == {",", "\n"}

\* text.split(/[\n,]+/): a run of separators separates once.
RECURSIVE collapseRuns(_)
collapseRuns(text) ==
  IF Len(text) < 2 THEN text
  ELSE IF text[1] \in Separators /\ text[2] \in Separators
  THEN collapseRuns(Tail(text))
  ELSE <<text[1]>> \o collapseRuns(Tail(text))

RECURSIVE splitAt(_, _, _)
splitAt(text, piece, pieces) ==
  IF text = <<>> THEN Append(pieces, piece)
  ELSE IF Head(text) \in Separators
  THEN splitAt(Tail(text), <<>>, Append(pieces, piece))
  ELSE splitAt(Tail(text), Append(piece, Head(text)), pieces)

split(text) == splitAt(collapseRuns(text), <<>>, <<>>)

RECURSIVE trimStart(_)
trimStart(w) == IF w # <<>> /\ Head(w) = " " THEN trimStart(Tail(w)) ELSE w

RECURSIVE trimEnd(_)
trimEnd(w) ==
  IF w # <<>> /\ w[Len(w)] = " " THEN trimEnd(SubSeq(w, 1, Len(w) - 1)) ELSE w

trim(w) == trimEnd(trimStart(w))

\* text.split(/[\n,]+/).map(w => w.trim()).filter(w => w.length > 0); the
\* texts of the model hold one token per word, which stands for the word.
parseWords(text) ==
  LET trimmed == [i \in 1..Len(split(text)) |-> trim(split(text)[i])]
      kept == SelectSeq(trimmed, LAMBDA w : Len(w) > 0)
  IN [i \in 1..Len(kept) |-> kept[i][1]]

handleUpdateActiveWordsUpdate(prev, id, difficulty, words) ==
  [i \in 1..Len(prev) |->
     IF prev[i].id = id THEN [prev[i] EXCEPT ![difficulty] = words] ELSE prev[i]]

\* onChange of a word list of the bank editor, shown when activeSet.id is set.
\* While they keep several banks the players type the one-word text; the
\* other texts are typed into a bank that is the only one.
handleUpdateActiveWords ==
  /\ variant = "HOME"
  /\ isSettingsOpen
  /\ activeSet.id # ""
  /\ \E edit \in BankEdits :
       /\ Len(wordSets) > 1 => edit.text = <<"Cat">>
       /\ wordSets' = handleUpdateActiveWordsUpdate(wordSets, selectedSetId,
                        edit.difficulty, parseWords(edit.text))
  /\ UNCHANGED <<variant, gameState, allPrompts, selectedGuesserIds,
                 timerInterval, intervals, fetching, selectedSetId,
                 isSettingsOpen>>
  /\ StorageSynced

\* The players arrange their banks (create, select, delete, rename) before the
\* first match of a session; word lists are edited at any time.
ArrangingBanks ==
  /\ variant = "HOME"
  /\ isSettingsOpen
  /\ allPrompts = <<>>
  /\ selectedGuesserIds = {}

handleUpdateActiveNameUpdate(prev, id, name) ==
  [i \in 1..Len(prev) |->
     IF prev[i].id = id THEN [prev[i] EXCEPT !.name = name] ELSE prev[i]]

\* onChange of the name field of the bank editor.
handleUpdateActiveName ==
  /\ ArrangingBanks
  /\ activeSet.id # ""
  /\ \E name \in BankNames :
       wordSets' = handleUpdateActiveNameUpdate(wordSets, selectedSetId, name)
  /\ UNCHANGED <<variant, gameState, allPrompts, selectedGuesserIds,
                 timerInterval, intervals, fetching, selectedSetId,
                 isSettingsOpen>>
  /\ StorageSynced

SetIds(sets) == {sets[i].id : i \in 1..Len(sets)}

\* `Custom Bank ${wordSets.length + 1}`
CustomBankName(n) ==
  <<"Custom Bank 1", "Custom Bank 2", "Custom Bank 3", "Custom Bank 4",
    "Custom Bank 5">>[n]

handleCreateSetUpdate(prev, newId) ==
  [wordSets |-> Append(prev, [id |-> newId, name |-> CustomBankName(Len(prev) + 1),
                              easy |-> <<>>, medium |-> <<>>, hard |-> <<>>]),
   selectedSetId |-> newId]

\* NEW PACK button of renderSettings.
handleCreateSet ==
  /\ ArrangingBanks
  /\ Len(wordSets) < MaxBanks
  /\ LET free == {i \in 1..Len(BankIds) : BankIds[i] \notin SetIds(wordSets)}
         newId == BankIds[CHOOSE i \in free : \A j \in free : i <= j]
         r == handleCreateSetUpdate(wordSets, newId)
     IN /\ wordSets' = r.wordSets
        /\ selectedSetId' = r.selectedSetId
  /\ UNCHANGED <<variant, gameState, allPrompts, selectedGuesserIds,
                 timerInterval, intervals, fetching, isSettingsOpen>>
  /\ StorageSynced

\* onClick of a bank card of renderSettings.
setSelectedSetId ==
  /\ ArrangingBanks
  /\ \E id \in SetIds(wordSets) : selectedSetId' = id
  /\ UNCHANGED <<variant, gameState, allPrompts, selectedGuesserIds,
                 timerInterval, intervals, fetching, wordSets, isSettingsOpen>>
  /\ StorageSynced

\* Faulty variant: the last bank can be deleted.
onlyBank_none(sets) == Len(sets) < 1

\* "if (wordSets.length <= 1) return;"
onlyBank(sets) == Len(sets) <= 1

\* handleDeleteSet(id) as a function of the two pieces of state it reads.
handleDeleteSetUpdate(prev, selected, id) ==
  IF onlyBank(prev)
  THEN [wordSets |-> prev, selectedSetId |-> selected]
  ELSE LET filtered == SelectSeq(prev, LAMBDA s : s.id # id)
       IN [wordSets |-> filtered,
           selectedSetId |-> IF selected = id
                             THEN IF Len(filtered) > 0 THEN filtered[1].id ELSE ""
                             ELSE selected]

\* The banks whose card shows the trash button: "selectedSetId !== s.id".
Deletable == {id \in SetIds(wordSets) : selectedSetId # id}

\* The trash button of a bank card.
handleDeleteSet ==
  /\ ArrangingBanks
  /\ \E id \in Deletable :
       LET r == handleDeleteSetUpdate(wordSets, selectedSetId, id)
       IN /\ wordSets' = r.wordSets
          /\ selectedSetId' = r.selectedSetId
  /\ UNCHANGED <<variant, gameState, allPrompts, selectedGuesserIds,
                 timerInterval, intervals, fetching, isSettingsOpen>>
  /\ StorageSynced

\* ======================================================= src/unnamed/part_000
Lobby(ph) == variant = "LOBBY" /\ gameState.phase = ph

addPlayerLobbyUpdate(prev, id, name) ==
  [prev EXCEPT !.players = Append(@, [id |-> id, name |-> name, score |-> 0])]

addPlayerLobby ==
  /\ Lobby("LOBBY")
  /\ FreshIds # {}
  /\ LET id == PlayerIds[CHOOSE i \in FreshIds : \A j \in FreshIds : i <= j]
     IN \E newPlayerName \in {"", NameOf[id]} :
          IF newPlayerName = ""
          THEN UNCHANGED <<gameState, timerInterval, intervals>>
          ELSE Commit(addPlayerLobbyUpdate(gameState, id, newPlayerName), intervals)
  /\ UNCHANGED <<variant, allPrompts, selectedGuesserIds, fetching, bankVars>>

removePlayerLobbyUpdate(prev, id) ==
  [prev EXCEPT !.players = SelectSeq(@, LAMBDA p : p.id # id)]

\* The remove button of a roster row; the model removes the player added last.
removePlayerLobby ==
  /\ Lobby("LOBBY")
  /\ NumPlayers > 0
  /\ Commit(removePlayerLobbyUpdate(gameState, gameState.players[NumPlayers].id),
            intervals)
  /\ UNCHANGED <<variant, allPrompts, selectedGuesserIds, fetching, bankVars>>

\* startGame up to its await.
startGame ==
  /\ Lobby("LOBBY")
  /\ IF tooFewPlayers(gameState)
     THEN UNCHANGED vars
     ELSE /\ Commit([gameState EXCEPT !.phase = "GETTING_PROMPTS"], intervals)
          /\ fetching' = TRUE
          /\ UNCHANGED <<variant, allPrompts, selectedGuesserIds, bankVars>>

\* The rest of startGame, run when the promise of generatePrompts(100)
\* settles; when it rejects, the await throws and startGame ends there.
startGameResolved ==
  /\ variant = "LOBBY"
  /\ fetching
  /\ \E outcome \in GeneratorOutcomes :
       LET r == generatePrompts(outcome)
       IN IF r.settled = "rejected"
          THEN UNCHANGED <<gameState, allPrompts, timerInterval, intervals>>
          ELSE /\ allPrompts' = r.value
               /\ \E choices \in startTurnSetupChoices(r.value) :
                    Commit(startTurnSetup(gameState, 0, 1, choices), intervals)
  /\ fetching' = FALSE
  /\ UNCHANGED <<variant, selectedGuesserIds, bankVars>>

\* READY button of renderPreTurn.
readyLobby ==
  /\ Lobby("PRE_TURN")
  /\ Commit([gameState EXCEPT !.phase = "CHOOSE_PROMPT"], intervals)
  /\ UNCHANGED <<variant, allPrompts, selectedGuesserIds, fetching, bankVars>>

choosePromptUpdate(prev, prompt) ==
  [prev EXCEPT !.currentPrompt = prompt, !.phase = "DRAWING"]

choosePrompt ==
  /\ Lobby("CHOOSE_PROMPT")
  /\ TurnNo < TurnsPlayed
  /\ \E prompt \in Range(gameState.promptChoices) :
       Commit(choosePromptUpdate(gameState, prompt), intervals)
  /\ UNCHANGED <<variant, allPrompts, selectedGuesserIds, fetching, bankVars>>

\* Faulty variant: the timeout is detected one tick late.
tickUpdaterLobby_late(prev, ref, live) ==
  IF prev.timer <= 0
  THEN [gs |-> [prev EXCEPT !.timer = 0, !.phase = "POST_TURN"],
        live |-> clearInterval(live, ref)]
  ELSE [gs |-> [prev EXCEPT !.timer = @ - 1], live |-> live]

\* The updater the interval callback passes to setGameState, with the timers
\* it leaves armed.
tickUpdaterLobby(prev, ref, live) ==
  IF prev.timer <= 1
  THEN [gs |-> [prev EXCEPT !.timer = 0, !.phase = "POST_TURN"],
        live |-> clearInterval(live, ref)]
  ELSE [gs |-> [prev EXCEPT !.timer = @ - 1], live |-> live]

tickLobby ==
  /\ variant = "LOBBY"
  /\ \E id \in intervals :
       LET r == tickUpdaterLobby(gameState, timerInterval, intervals)
       IN Commit(r.gs, r.live)
  /\ UNCHANGED <<variant, allPrompts, selectedGuesserIds, fetching, bankVars>>

enterScoringPhase ==
  /\ Lobby("DRAWING")
  /\ gameState.timer \in UserTimes
  /\ selectedGuesserIds' = {}
  /\ Commit([gameState EXCEPT !.phase = "CONFIRM_SCORE"],
            clearInterval(intervals, timerInterval))
  /\ UNCHANGED <<variant, allPrompts, fetching, bankVars>>

\* A button of renderConfirmScore: one per player other than the drawer.
toggleGuesserLobby ==
  /\ Lobby("CONFIRM_SCORE")
  /\ \E id \in OtherPlayerIds : selectedGuesserIds' = Toggle(selectedGuesserIds, id)
  /\ UNCHANGED <<variant, gameState, allPrompts, timerInterval, intervals,
                 fetching, bankVars>>

\* CANCEL button of renderConfirmScore.
cancelScoring ==
  /\ Lobby("CONFIRM_SCORE")
  /\ Commit([gameState EXCEPT !.phase = "DRAWING"], intervals)
  /\ UNCHANGED <<variant, allPrompts, selectedGuesserIds, fetching, bankVars>>

surrenderTurnUpdate(prev) == [prev EXCEPT !.phase = "POST_TURN"]

\* "Surrender Turn" of renderDrawing.
surrenderTurn ==
  /\ Lobby("DRAWING")
  /\ gameState.timer \in UserTimes
  /\ Commit(surrenderTurnUpdate(gameState), intervals)
  /\ UNCHANGED <<variant, allPrompts, selectedGuesserIds, fetching, bankVars>>

difficultyPointsMap == [easy |-> 1, medium |-> 2, hard |-> 3]

basePointsLobby(prompt) == difficultyPointsMap[DifficultyOf(prompt)]

scoreIncreaseLobby(isDrawer, isSelectedGuesser, anyGuesser, basePoints, speed) ==
  (IF isDrawer /\ anyGuesser THEN basePoints ELSE 0)
  + (IF isSelectedGuesser THEN basePoints + (IF speed THEN 1 ELSE 0) ELSE 0)

\* Faulty variant: the submit resets the timer for the next turn.
finalizeScoreUpdate_resetsTimer(prev, timer, prompt, selected) ==
  LET basePoints == basePointsLobby(prompt)
      updatedPlayers ==
        [i \in 1..Len(prev.players) |->
           LET p == prev.players[i]
           IN [p EXCEPT !.score =
                 @ + scoreIncreaseLobby(p.id = Drawer(prev).id, p.id \in selected,
                                        selected # {}, basePoints,
                                        isSpeedBonus(timer))]]
      newHistory ==
        Append(prev.history,
               [playerName |-> Drawer(prev).name,
                word |-> IF prev.currentPrompt \in {Null, Undefined} THEN ""
                         ELSE prev.currentPrompt.word,
                wasCorrect |-> selected # {},
                winners |-> winnersOf(prev, selected)])
  IN [prev EXCEPT !.players = updatedPlayers, !.history = newHistory,
                  !.phase = "POST_TURN", !.timer = DEFAULT_TIME]

finalizeScoreUpdate(prev, timer, prompt, selected) ==
  LET basePoints == basePointsLobby(prompt)
      updatedPlayers ==
        [i \in 1..Len(prev.players) |->
           LET p == prev.players[i]
           IN [p EXCEPT !.score =
                 @ + scoreIncreaseLobby(p.id = Drawer(prev).id, p.id \in selected,
                                        selected # {}, basePoints,
                                        isSpeedBonus(timer))]]
      newHistory ==
        Append(prev.history,
               [playerName |-> Drawer(prev).name,
                word |-> IF prev.currentPrompt \in {Null, Undefined} THEN ""
                         ELSE prev.currentPrompt.word,
                wasCorrect |-> selected # {},
                winners |-> winnersOf(prev, selected)])
  IN [prev EXCEPT !.players = updatedPlayers, !.history = newHistory,
                  !.phase = "POST_TURN"]

finalizeScore ==
  /\ Lobby("CONFIRM_SCORE")
  /\ Commit(finalizeScoreUpdate(gameState, gameState.timer,
                                gameState.currentPrompt, selectedGuesserIds),
            intervals)
  /\ UNCHANGED <<variant, allPrompts, selectedGuesserIds, fetching, bankVars>>

nextPlayerIdxOf(gs) == (gs.currentPlayerIndex + 1) % Len(gs.players)

\* The updater of handleNextTurn's round-end branch.
roundEndedUpdate(prev) == [prev EXCEPT !.phase = "ROUND_LEADERBOARD"]

handleNextTurn ==
  /\ Lobby("POST_TURN")
  /\ IF nextPlayerIdxOf(gameState) = 0
     THEN Commit(roundEndedUpdate(gameState), intervals)
     ELSE \E choices \in startTurnSetupChoices(allPrompts) :
            Commit(startTurnSetup(gameState, nextPlayerIdxOf(gameState),
                                  gameState.rounds, choices), intervals)
  /\ UNCHANGED <<variant, allPrompts, selectedGuesserIds, fetching, bankVars>>

\* Faulty variant: one round more is played.
pastLastRound_late(gs) == gs.rounds > gs.maxRounds

\* "nextRound > gameState.maxRounds" with nextRound = gameState.rounds + 1
pastLastRound(gs) == gs.rounds + 1 > gs.maxRounds

proceedFromRoundLeaderboard ==
  /\ Lobby("ROUND_LEADERBOARD")
  /\ IF pastLastRound(gameState)
     THEN Commit([gameState EXCEPT !.phase = "GAME_OVER"], intervals)
     ELSE \E choices \in startTurnSetupChoices(allPrompts) :
            Commit(startTurnSetup(gameState, 0, gameState.rounds + 1, choices),
                   intervals)
  /\ UNCHANGED <<variant, allPrompts, selectedGuesserIds, fetching, bankVars>>

\* Faulty variant: the interrupted match loses its history.
endGameEarlyUpdate_dropsHistory(prev) ==
  [prev EXCEPT !.phase = "GAME_OVER", !.history = <<>>]

endGameEarlyUpdate(prev) == [prev EXCEPT !.phase = "GAME_OVER"]

\* The phases whose screen holds a button bound to endGameEarly.
endGameEarlyOffered == {"PRE_TURN", "CHOOSE_PROMPT", "DRAWING", "ROUND_LEADERBOARD"}

endGameEarly ==
  /\ \E ph \in endGameEarlyOffered : Lobby(ph)
  /\ Lobby("DRAWING") => gameState.timer \in UserTimes
  /\ Commit(endGameEarlyUpdate(gameState), clearInterval(intervals, timerInterval))
  /\ UNCHANGED <<variant, allPrompts, selectedGuesserIds, fetching, bankVars>>

\* NEW GAME of renderGameOver: window.location.reload() mounts the component anew.
reloadPage ==
  /\ Lobby("GAME_OVER")
  /\ gameState' = InitialLobbyState
  /\ allPrompts' = <<>>
  /\ selectedGuesserIds' = {}
  /\ timerInterval' = NoInterval
  /\ intervals' = {}
  /\ fetching' = FALSE
  /\ UNCHANGED <<variant, bankVars>>

\* ------------------------------------------------- hints of renderDrawing
\* word.split(''): the characters of the words a turn of the model can draw.
Letters ==
  [Cat |-> <<"C", "a", "t">>, Sun |-> <<"S", "u", "n">>,
   Robot |-> <<"R", "o", "b", "o", "t">>,
   Library |-> <<"L", "i", "b", "r", "a", "r", "y">>,
   Gravity |-> <<"G", "r", "a", "v", "i", "t", "y">>]
  @@ ("Eiffel Tower" :>
        <<"E", "i", "f", "f", "e", "l", " ", "T", "o", "w", "e", "r">>)

\* gameState.currentPrompt?.word || ""
wordChars(prompt) ==
  IF prompt \in {Null, Undefined} THEN <<>> ELSE Letters[prompt.word]

\* The hint triggers of a difficulty (part_000).
hintTriggers(difficulty) ==
  IF difficulty = "medium"
  THEN [lengthTrigger |-> 45, letter1Trigger |-> 35, letter2Trigger |-> 15,
        letter3Trigger |-> -1]
  ELSE IF difficulty = "hard"
  THEN [lengthTrigger |-> 60, letter1Trigger |-> 45, letter2Trigger |-> 30,
        letter3Trigger |-> 15]
  ELSE [lengthTrigger |-> 30, letter1Trigger |-> 20, letter2Trigger |-> 10,
        letter3Trigger |-> -1]

\* isRevealed of the character at index i (counted from 0) of a word of
\* length len.
isRevealedLobby(timer, trig, len, i) ==
  \/ (timer < trig.letter1Trigger /\ i = 0)
  \/ (timer < trig.letter2Trigger /\ i = len \div 2)
  \/ (timer < trig.letter3Trigger /\ i = len - 1)

\* Faulty variant: the length hint appears one second late.
showLengthHint_strict(prompt, timer) ==
  timer < hintTriggers(DifficultyOf(prompt)).lengthTrigger

\* const showLengthHint = gameState.timer <= lengthTrigger
showLengthHint(prompt, timer) ==
  timer <= hintTriggers(DifficultyOf(prompt)).lengthTrigger

\* The cells renderDrawing shows for the prompt at a timer value: none while
\* the length hint is off, else one per character: a gap for a space, the
\* character when revealed, "_" otherwise.
hintDisplayLobby(prompt, timer) ==
  LET word == wordChars(prompt)
      trig == hintTriggers(DifficultyOf(prompt))
  IN IF showLengthHint(prompt, timer)
     THEN [k \in 1..Len(word) |->
             IF word[k] = " " THEN [gap |-> TRUE, isRevealed |-> FALSE]
             ELSE [gap |-> FALSE,
                   isRevealed |-> isRevealedLobby(timer, trig, Len(word), k - 1)]]
     ELSE <<>>

\* ------------------------------------- hints of the DRAWING screen (App.tsx)
\* const revealLen = gameState.timer <= 58
revealLen(timer) == timer <= 58

\* isRevealed of the character at index i (counted from 0) of a word of
\* length len, from reveal1, reveal2 and reveal3.
isRevealedHome(timer, len, i) ==
  \/ (timer <= 50 /\ i = 0)
  \/ (timer <= 35 /\ i = len \div 2)
  \/ (timer <= 20 /\ i = len - 1)

\* Faulty variant: a space is rendered like any other character.
hintDisplayHome_spaceAsLetter(prompt, timer) ==
  LET word == wordChars(prompt)
  IN IF revealLen(timer)
     THEN [k \in 1..Len(word) |->
             [gap |-> FALSE,
              isRevealed |-> isRevealedHome(timer, Len(word), k - 1)]]
     ELSE <<>>

\* The cells the DRAWING screen shows for the prompt at a timer value: none
\* while revealLen is false, else one per character: a gap for a space, the
\* character when revealed, "_" otherwise.
hintDisplayHome(prompt, timer) ==
  LET word == wordChars(prompt)
  IN IF revealLen(timer)
     THEN [k \in 1..Len(word) |->
             IF word[k] = " " THEN [gap |-> TRUE, isRevealed |-> FALSE]
             ELSE [gap |-> FALSE,
                   isRevealed |-> isRevealedHome(timer, Len(word), k - 1)]]
     ELSE <<>>

\* ============================================================== specification
Next ==
  \/ addPlayer \/ removePlayer \/ startMatch \/ startMatchResolved
  \/ readyHome \/ selectPrompt \/ tickHome \/ confirmSolved
  \/ toggleGuesserHome \/ backToDrawing \/ skipTurn \/ submitScore
  \/ nextTurn \/ nextRound \/ endEarly \/ restartMatch \/ exitToHome
  \/ addPlayerLobby \/ removePlayerLobby \/ startGame \/ startGameResolved
  \/ readyLobby \/ choosePrompt \/ tickLobby \/ enterScoringPhase
  \/ toggleGuesserLobby \/ cancelScoring \/ surrenderTurn \/ finalizeScore
  \/ handleNextTurn \/ proceedFromRoundLeaderboard \/ endGameEarly
  \/ reloadPage
  \/ openSettings \/ closeSettings \/ setWordSource \/ handleUpdateActiveWords
  \/ handleUpdateActiveName \/ handleCreateSet \/ setSelectedSetId
  \/ handleDeleteSet

Spec == Init /\ [][Next]_vars

\* The promise of a started prompt request settles, by resolving or by
\* rejecting: its continuation is eventually run.
LiveSpec ==
  Spec /\ WF_vars(startMatchResolved) /\ WF_vars(startGameResolved)

\* An armed interval keeps firing: setInterval calls its callback every second
\* until it is cleared.
TickSpec == Spec /\ WF_vars(tickHome) /\ WF_vars(tickLobby)

\* ================================================================ properties
InMatchStages ==
  {"PRE_TURN", "CHOOSE_PROMPT", "DRAWING", "CONFIRM_SCORE", "POST_TURN",
   "ROUND_LEADERBOARD"}

EntersPostTurn == Stage # "POST_TURN" /\ Stage' = "POST_TURN"
SubmitStep == Stage = "CONFIRM_SCORE" /\ Stage' = "POST_TURN"

\* Base points of section 4.4 of the spec, by the difficulty of the prompt
\* (absent prompt: the easy tier).
PointsOfTier(prompt) ==
  IF prompt = Null THEN 1
  ELSE CASE prompt.difficulty = "easy" -> 1
         [] prompt.difficulty = "medium" -> 2
         [] prompt.difficulty = "hard" -> 3
         [] prompt.difficulty = "custom" -> 2

\* ------------------------------------------------------------------------ C1
\* In every state of a match of the HOME variant the history holds one entry
\* per turn completed so far: as many as the turns before the current one while
\* a turn is being prepared or played, one more once it has reached POST_TURN.
HistoryCountsTurnsHome ==
  variant = "HOME" =>
    /\ Stage \in {"PRE_TURN", "CHOOSE_PROMPT", "DRAWING", "CONFIRM_SCORE"}
         => Len(gameState.history) = TurnNo
    /\ Stage \in {"POST_TURN", "ROUND_LEADERBOARD"}
         => Len(gameState.history) = TurnNo + 1

\* C1: in the HOME variant a step enters POST_TURN exactly when it appends one
\* history entry, history.length counts the turns completed so far, and the
\* step from ROUND_LEADERBOARD to GAME_OVER (a match that was not ended early)
\* is taken only when exactly N * maxRounds turns have completed.
C1_TurnsBeforeGameOver ==
  /\ []HistoryCountsTurnsHome
  /\ [][variant = "HOME" =>
          /\ EntersPostTurn
               => gameState'.history \in
                    {Append(gameState.history, e) : e \in Range(gameState'.history)}
          /\ (Stage \in InMatchStages /\ Stage' \in InMatchStages
              /\ ~EntersPostTurn)
               => gameState'.history = gameState.history
          /\ (Stage = "ROUND_LEADERBOARD" /\ Stage' = "GAME_OVER")
               => /\ NumPlayers >= 2
                  /\ Len(gameState.history) = NumPlayers * gameState.maxRounds
                  /\ gameState'.history = gameState.history]_vars

\* A two-player match of the HOME variant that ran to GAME_OVER through all of
\* its turns.
C1_Witness ==
  /\ variant = "HOME"
  /\ gameState.phase = "GAME_OVER"
  /\ NumPlayers = 2
  /\ Len(gameState.history) = 2 * gameState.maxRounds

\* ------------------------------------------------------------------------ C2
\* C2: in the LOBBY variant history.length equals the number of completed
\* turns in every state, and in POST_TURN the last entry is the entry of the
\* turn that just ended (its playerName is the drawer's).
C2_HistoryCountsTurnsLobby ==
  variant = "LOBBY" =>
    /\ Stage \in {"PRE_TURN", "CHOOSE_PROMPT", "DRAWING", "CONFIRM_SCORE"}
         => Len(gameState.history) = TurnNo
    /\ Stage \in {"POST_TURN", "ROUND_LEADERBOARD"}
         => Len(gameState.history) = TurnNo + 1
    /\ Stage = "POST_TURN"
         => /\ Len(gameState.history) > 0
            /\ gameState.history[Len(gameState.history)].playerName
                 = Drawer(gameState).name

\* ------------------------------------------------------------------------ C3
\* C3: in both variants a submit made with timer value t gives every selected
\* guesser exactly the base points of the prompt plus 1 when t >= 30, and
\* exactly the base points when t < 30.
C3_SpeedBonus ==
  [][SubmitStep =>
       \A i \in 1..NumPlayers :
         gameState.players[i].id \in selectedGuesserIds
           => gameState'.players[i].score
                = gameState.players[i].score
                  + PointsOfTier(gameState.currentPrompt)
                  + (IF gameState.timer >= 30 THEN 1 ELSE 0)]_vars

\* The first turn of a match was submitted at t = 30 and a guesser holds the
\* base points plus the bonus.
C3_Witness ==
  /\ Stage = "POST_TURN"
  /\ Len(gameState.history) = 1
  /\ gameState.timer = 30
  /\ \E i \in 1..NumPlayers :
       /\ gameState.players[i].name \in Range(gameState.history[1].winners)
       /\ gameState.players[i].score = PointsOfTier(gameState.currentPrompt) + 1

\* ------------------------------------------------------------------------ C4
\* C4: in both variants the drawer's score changes in a step of a match only
\* when that step is a submit with a non-empty selection, and then it grows by
\* exactly the base points; timeout, skip, end-early, submit with an empty
\* selection and every other step leave it unchanged.
C4_DrawerReward ==
  [][(Stage \in InMatchStages /\ Stage' \in InMatchStages \cup {"GAME_OVER"}) =>
       /\ Len(gameState'.players) = NumPlayers
       /\ gameState'.players[gameState.currentPlayerIndex + 1].score
            = Drawer(gameState).score
              + (IF SubmitStep /\ selectedGuesserIds # {}
                 THEN PointsOfTier(gameState.currentPrompt) ELSE 0)]_vars

\* The first turn of a match was submitted within the bonus time: the guesser
\* holds base + 1 and the drawer holds exactly the base points.
C4_Witness ==
  /\ Stage = "POST_TURN"
  /\ Len(gameState.history) = 1
  /\ gameState.timer >= 30
  /\ gameState.history[1].wasCorrect
  /\ Drawer(gameState).score = PointsOfTier(gameState.currentPrompt)
  /\ \E i \in 1..NumPlayers :
       gameState.players[i].score = PointsOfTier(gameState.currentPrompt) + 1

\* ------------------------------------------------------------------------ C5
\* C5: from the start of a match to its restart or exit no step lowers a
\* player's score or changes the roster size, and every score is a
\* non-negative integer in every state.
C5_ScoresMonotone ==
  /\ [](\A i \in 1..NumPlayers : gameState.players[i].score \in Nat)
  /\ [][(Stage \notin {"HOME", "LOBBY"} /\ Stage' \notin {"HOME", "LOBBY"}) =>
          /\ Len(gameState'.players) = NumPlayers
          /\ \A i \in 1..NumPlayers :
               gameState'.players[i].score >= gameState.players[i].score]_vars

\* A player was paid in two turns of one match.
C5_Witness ==
  /\ Stage = "POST_TURN"
  /\ Len(gameState.history) = 2
  /\ gameState.history[1].wasCorrect
  /\ gameState.history[2].wasCorrect
  /\ \E i \in 1..NumPlayers : gameState.players[i].score >= 4

\* ------------------------------------------------------------------------ C6
\* C6: in both variants the step out of POST_TURN goes to ROUND_LEADERBOARD
\* when the drawer was the last player (index N-1), and otherwise to PRE_TURN
\* with the index advanced by one and the same round.
C6_RoundWrap ==
  [][(Stage = "POST_TURN" /\ Stage' # "POST_TURN") =>
       /\ NumPlayers >= 2
       /\ IF gameState.currentPlayerIndex = NumPlayers - 1
          THEN Stage' = "ROUND_LEADERBOARD"
          ELSE /\ Stage' = "PRE_TURN"
               /\ gameState'.currentPlayerIndex = gameState.currentPlayerIndex + 1
               /\ gameState'.rounds = gameState.rounds]_vars

\* The third player of a three-player match is about to draw: two turns of the
\* round went on to PRE_TURN.
C6_Witness ==
  /\ Stage = "PRE_TURN"
  /\ NumPlayers = 3
  /\ gameState.currentPlayerIndex = 2

\* ------------------------------------------------------------------------ C7
\* C7 as stated: in ROUND_LEADERBOARD currentPlayerIndex has been wrapped to 0.
C7_IndexWrappedAtLeaderboard ==
  Stage = "ROUND_LEADERBOARD" => gameState.currentPlayerIndex = 0

\* C7 amended: the step from POST_TURN to ROUND_LEADERBOARD changes neither
\* currentPlayerIndex nor the round, so ROUND_LEADERBOARD still holds the index
\* N-1 of the last drawer; the index becomes 0 in the step that leaves
\* ROUND_LEADERBOARD for PRE_TURN.
C7_IndexKeptAtLeaderboard ==
  /\ [](Stage = "ROUND_LEADERBOARD"
          => gameState.currentPlayerIndex = NumPlayers - 1)
  /\ [][/\ (Stage = "POST_TURN" /\ Stage' = "ROUND_LEADERBOARD")
             => /\ gameState'.currentPlayerIndex = gameState.currentPlayerIndex
                /\ gameState'.rounds = gameState.rounds
        /\ (Stage = "ROUND_LEADERBOARD" /\ Stage' = "PRE_TURN")
             => gameState'.currentPlayerIndex = 0]_vars

\* Bob, the second of two players, has drawn in round 1.
C7_Witness ==
  /\ Stage = "ROUND_LEADERBOARD"
  /\ NumPlayers = 2
  /\ gameState.currentPlayerIndex = 1
  /\ gameState.rounds = 1

\* ------------------------------------------------------------------------ C8
\* C8: in both variants timer >= 1 whenever the phase is DRAWING or
\* CONFIRM_SCORE, and a state with timer = 0 is already past the turn
\* (POST_TURN, ROUND_LEADERBOARD or GAME_OVER).
C8_TimeoutAtomic ==
  /\ Stage \in {"DRAWING", "CONFIRM_SCORE"} => gameState.timer >= 1
  /\ gameState.timer = 0 => Stage \in {"POST_TURN", "ROUND_LEADERBOARD", "GAME_OVER"}

\* A turn has timed out.
C8_Witness == Stage = "POST_TURN" /\ gameState.timer = 0

\* ------------------------------------------------------------------------ C9
\* C9: in both variants no interval is armed unless the phase is DRAWING, at
\* most one is armed at any time, and the one armed in DRAWING is the one
\* timerInterval refers to; so no tick is applied outside DRAWING.
C9_TickTeardown ==
  /\ Stage # "DRAWING" => intervals = {}
  /\ Cardinality(intervals) <= 1
  /\ Stage = "DRAWING" => intervals = {timerInterval}

\* The HOME variant was ended early from DRAWING after the countdown had run.
C9_Witness ==
  /\ variant = "HOME"
  /\ gameState.phase = "GAME_OVER"
  /\ gameState.currentPrompt # Null
  /\ gameState.timer = 29
  /\ Len(gameState.history) = 0
  /\ intervals = {}

\* ----------------------------------------------------------------------- C10
\* C10: in both variants entering CONFIRM_SCORE, staying in it and going back
\* to DRAWING all keep timer, currentPrompt, players and history; going back
\* arms exactly one interval where none was armed; and every step that stays
\* in DRAWING lowers the timer by exactly 1.
C10_BackResumes ==
  [][/\ (\/ (Stage \in {"DRAWING", "CONFIRM_SCORE"} /\ Stage' = "CONFIRM_SCORE")
         \/ (Stage = "CONFIRM_SCORE" /\ Stage' = "DRAWING"))
          => /\ gameState'.timer = gameState.timer
             /\ gameState'.currentPrompt = gameState.currentPrompt
             /\ gameState'.players = gameState.players
             /\ gameState'.history = gameState.history
     /\ (Stage = "CONFIRM_SCORE" /\ Stage' = "DRAWING")
          => /\ intervals = {}
             /\ Cardinality(intervals') = 1
     /\ (Stage = "DRAWING" /\ Stage' = "DRAWING")
          => gameState'.timer = gameState.timer - 1]_vars

\* HOME variant: after SOLVED at 29 or later, a selection and Back, a tick
\* has taken the timer to 28.
C10_Witness ==
  /\ variant = "HOME"
  /\ Stage = "DRAWING"
  /\ selectedGuesserIds # {}
  /\ gameState.timer = 28
  /\ Cardinality(intervals) = 1

\* ----------------------------------------------------------------------- C11
\* C11: in both variants, once the phase is GAME_OVER no prompt fetch is
\* pending and no interval is armed, and every step taken from GAME_OVER
\* either leaves the match (to HOME by restart/exit, to LOBBY by reload) or
\* keeps phase, sub-phase, round, currentPlayerIndex, players and history.
C11_GameOverAbsorbing ==
  /\ [](Stage = "GAME_OVER" => ~fetching /\ intervals = {})
  /\ [][Stage = "GAME_OVER" =>
          \/ Stage' \in {"HOME", "LOBBY"}
          \/ /\ gameState'.phase = gameState.phase
             /\ variant = "HOME" => gameState'.subPhase = gameState.subPhase
             /\ gameState'.rounds = gameState.rounds
             /\ gameState'.currentPlayerIndex = gameState.currentPlayerIndex
             /\ gameState'.players = gameState.players
             /\ gameState'.history = gameState.history]_vars

\* The LOBBY variant was ended early from DRAWING of the first turn after the
\* countdown had run down to 29.
C11_Witness ==
  /\ variant = "LOBBY"
  /\ Stage = "GAME_OVER"
  /\ gameState.currentPrompt # Null
  /\ gameState.timer = 29
  /\ gameState.rounds = 1
  /\ gameState.currentPlayerIndex = 0
  /\ ~fetching

\* ----------------------------------------------------------------------- C12
AllInMatchStages == InMatchStages \cup {"GETTING_PROMPTS"}

\* The end-early signal of either variant.
EndEarlySignal == endEarly \/ endGameEarly

\* The in-match phases of the running variant whose screen offers end-early.
EndEarlyStages ==
  IF variant = "HOME" THEN endEarlyOffered ELSE endGameEarlyOffered

C13_ThreeChoices ==
  (Stage = "CHOOSE_PROMPT" /\ allPrompts # <<>>) =>
    /\ Len(gameState.promptChoices) = 3
    /\ \A i \in 1..3 : gameState.promptChoices[i] \in Range(allPrompts)

\* Choosing from a word bank of exactly three words, the smallest bank the
\* start check lets through.
C13_Witness ==
  /\ variant = "HOME"
  /\ gameState.wordSource = "custom"
  /\ Stage = "CHOOSE_PROMPT"
  /\ Len(allPrompts) = 3
  /\ Len(gameState.promptChoices) = 3

\* ----------------------------------------------------------------------- C14
\* C14 as stated: every prompt request resolves into the scheduler, whatever
\* the external generator does: the step in which a pending request settles
\* sets up the first turn with the list it resolved with, and a list that is
\* not an answer of the generator is a fallback list of at least 9 prompts
\* that holds an easy, a medium and a hard one.
C14_GeneratorNeverRejects ==
  [][(fetching /\ ~fetching') =>
       /\ Stage' = "PRE_TURN"
       /\ allPrompts' \notin AIResponses =>
            /\ Len(allPrompts') >= 9
            /\ \A d \in {"easy", "medium", "hard"} :
                 \E i \in 1..Len(allPrompts') : allPrompts'[i].difficulty = d]_vars

\* ----------------------------------------------------------------------- C15
\* C15 as stated: when the prompt request eventually settles, a match in
\* GETTING_PROMPTS eventually reaches PRE_TURN with currentPlayerIndex = 0,
\* round 1, timer 60, no current prompt and three prompt choices.
C15_LoadingEnds ==
  (Stage = "GETTING_PROMPTS")
    ~> /\ Stage = "PRE_TURN"
       /\ gameState.currentPlayerIndex = 0
       /\ gameState.rounds = 1
       /\ gameState.timer = DEFAULT_TIME
       /\ gameState.currentPrompt = Null
       /\ Len(gameState.promptChoices) = 3

\* ----------------------------------------------------------------------- C16
\* The start signal of either variant.
StartSignal == startMatch \/ startGame

\* C16: in both variants a start signal given with fewer than 2 players
\* changes nothing, and no step taken from the setup screen with fewer than 2
\* players starts a prompt request, replaces the prompt pool, leaves the setup
\* phase or changes round, index, timer or history.
C16_StartRefused ==
  [][/\ (NumPlayers < 2 /\ StartSignal) => UNCHANGED vars
     /\ (Stage \in {"HOME", "LOBBY"} /\ NumPlayers < 2) =>
          /\ Stage' = Stage
          /\ ~fetching'
          /\ allPrompts' = allPrompts
          /\ gameState'.rounds = gameState.rounds
          /\ gameState'.currentPlayerIndex = gameState.currentPlayerIndex
          /\ gameState'.timer = gameState.timer
          /\ gameState'.history = gameState.history]_vars

\* One player is on the roster and the start signal can be given: it is the
\* refusal that runs.
C16_Witness ==
  /\ NumPlayers = 1
  /\ ENABLED (StartSignal /\ UNCHANGED vars)

\* ----------------------------------------------------------------------- C17
\* The words of the active bank, over its three lists.
BankWords ==
  Len(activeSet.easy) + Len(activeSet.medium) + Len(activeSet.hard)

\* The home screen in custom mode with enough players to start.
CustomStartScreen ==
  /\ HomeScreen
  /\ gameState.wordSource = "custom"
  /\ NumPlayers >= 2

\* C17: in custom mode (src/App.tsx) with at least 2 players, while the active
\* bank has fewer than 3 words no step leaves HOME or replaces the prompt
\* pool, and the start signal can be given and opens the settings; with 3 or
\* more words the start signal can be given and the step that leaves HOME
\* goes straight to PRE_TURN with player 0, round 1, no prompt request, and
\* the bank's words as the pool.
C17_SmallBankRefused ==
  /\ []((CustomStartScreen /\ BankWords < 3)
          => ENABLED (startMatch /\ isSettingsOpen'))
  /\ []((CustomStartScreen /\ BankWords >= 3)
          => ENABLED (startMatch /\ Stage' = "PRE_TURN"))
  /\ [][CustomStartScreen =>
          IF BankWords < 3
          THEN /\ Stage' = "HOME"
               /\ allPrompts' = allPrompts
               /\ ~fetching'
               /\ startMatch =>
                    /\ isSettingsOpen'
                    /\ UNCHANGED <<gameState, wordSets, selectedSetId>>
          ELSE Stage' # "HOME" =>
                 /\ Stage' = "PRE_TURN"
                 /\ gameState'.currentPlayerIndex = 0
                 /\ gameState'.rounds = 1
                 /\ ~fetching'
                 /\ Len(allPrompts') = BankWords]_vars

\* Two players, custom mode, a bank of two words: the start signal can be
\* given and it opens the settings.
C17_Witness ==
  /\ CustomStartScreen
  /\ BankWords = 2
  /\ ENABLED (startMatch /\ isSettingsOpen')

Proceed == nextRound \/ proceedFromRoundLeaderboard

\* C19: in both variants 1 <= rounds <= maxRounds in every state and no step
\* inside a match lowers rounds; from ROUND_LEADERBOARD, proceeding goes to
\* PRE_TURN when rounds < maxRounds and to GAME_OVER when rounds = maxRounds
\* (and can be done); a step to PRE_TURN adds exactly 1 to rounds and sets
\* currentPlayerIndex = 0, a step to GAME_OVER keeps rounds.
C19_RoundBounds ==
  /\ [](gameState.rounds >= 1 /\ gameState.rounds <= gameState.maxRounds)
  /\ [](Stage = "ROUND_LEADERBOARD" => ENABLED Proceed)
  /\ [][/\ (Stage \notin {"HOME", "LOBBY"} /\ Stage' \notin {"HOME", "LOBBY"})
             => gameState'.rounds >= gameState.rounds
        /\ Stage = "ROUND_LEADERBOARD" =>
             /\ Stage' = "PRE_TURN" =>
                  /\ gameState.rounds < gameState.maxRounds
                  /\ gameState'.rounds = gameState.rounds + 1
                  /\ gameState'.currentPlayerIndex = 0
             /\ Stage' = "GAME_OVER" => gameState'.rounds = gameState.rounds
             /\ Proceed =>
                  Stage' = IF gameState.rounds < gameState.maxRounds
                           THEN "PRE_TURN" ELSE "GAME_OVER"]_vars

\* The LOBBY variant has gone on from the first round's leaderboard.
C19_Witness ==
  /\ variant = "LOBBY"
  /\ Stage = "PRE_TURN"
  /\ gameState.rounds = 2
  /\ gameState.currentPlayerIndex = 0

\* ----------------------------------------------------------------------- C20
\* A restart: back to HOME with the roster kept and the match reset.
RestartShape ==
  /\ gameState'.phase = "HOME"
  /\ gameState'.subPhase = "null"
  /\ Len(gameState'.players) = NumPlayers
  /\ \A i \in 1..NumPlayers :
       /\ gameState'.players[i].id = gameState.players[i].id
       /\ gameState'.players[i].name = gameState.players[i].name
       /\ gameState'.players[i].score = 0
  /\ gameState'.history = <<>>
  /\ gameState'.rounds = 1
  /\ gameState'.currentPlayerIndex = 0
  /\ gameState'.timer = 60
  /\ gameState'.currentPrompt = Null
  /\ gameState'.wordSource = gameState.wordSource

\* An exit: the state of a fresh start, but for the word-source mode.
ExitShape ==
  /\ gameState'.phase = "HOME"
  /\ gameState'.subPhase = "null"
  /\ gameState'.players = <<>>
  /\ gameState'.history = <<>>
  /\ gameState'.rounds = 1
  /\ gameState'.currentPlayerIndex = 0
  /\ gameState'.timer = 60
  /\ gameState'.currentPrompt = Null
  /\ gameState'.promptChoices = <<>>
  /\ gameState'.wordSource = gameState.wordSource

\* C20: in src/App.tsx both restart and exit can be given in GAME_OVER;
\* restart leads to HOME with every score 0, empty history, round 1, index 0,
\* timer 60, no current prompt and the same players (ids, names, order); exit
\* leads to HOME with an empty roster and every field of the match reset,
\* keeping the word-source mode; GAME_OVER is left in no other way.
C20_RestartAndExit ==
  /\ []((variant = "HOME" /\ Stage = "GAME_OVER")
          => ENABLED restartMatch /\ ENABLED exitToHome)
  /\ [][(variant = "HOME" /\ Stage = "GAME_OVER") =>
          /\ restartMatch => RestartShape
          /\ exitToHome => ExitShape
          /\ Stage' # "GAME_OVER" => RestartShape \/ ExitShape]_vars

\* Back on the home screen after a restart: the players of the match are
\* there with score 0, the history is empty, and the choices and the guesser
\* selection of the last turn are left over.
C20_Witness ==
  /\ variant = "HOME"
  /\ Stage = "HOME"
  /\ NumPlayers = 2
  /\ \A i \in 1..NumPlayers : gameState.players[i].score = 0
  /\ gameState.history = <<>>
  /\ gameState.promptChoices # <<>>
  /\ selectedGuesserIds # {}

\* ----------------------------------------------------------------------- C21
\* C21: in src/App.tsx the bank collection always holds at least one bank, the
\* ids of its banks are distinct and selectedSetId is the id of one of them;
\* handleDeleteSet, called in any reachable state with the id of any bank, is
\* a no-op when that bank is the only one, and otherwise removes exactly that
\* bank and, when it was the selected one, selects a bank that is left; every
\* step of the trash button removes one bank and keeps the selection.
C21_BankCollectionSafe ==
  /\ [](/\ Len(wordSets) >= 1
        /\ Cardinality(SetIds(wordSets)) = Len(wordSets)
        /\ selectedSetId \in SetIds(wordSets))
  /\ [](\A id \in SetIds(wordSets) :
          LET r == handleDeleteSetUpdate(wordSets, selectedSetId, id)
          IN /\ Len(wordSets) = 1
                  => r = [wordSets |-> wordSets, selectedSetId |-> selectedSetId]
             /\ Len(wordSets) > 1
                  => /\ SetIds(r.wordSets) = SetIds(wordSets) \ {id}
                     /\ id # selectedSetId => r.selectedSetId = selectedSetId
             /\ Len(r.wordSets) >= 1
             /\ r.selectedSetId \in SetIds(r.wordSets))
  /\ [][handleDeleteSet =>
          /\ Len(wordSets') = Len(wordSets) - 1
          /\ selectedSetId' = selectedSetId]_vars

\* The built-in bank was deleted after a bank had been created; the bank that
\* is left is the selected one, was renamed and holds typed words.
C21_Witness ==
  /\ Len(wordSets) = 1
  /\ "default" \notin SetIds(wordSets)
  /\ selectedSetId = wordSets[1].id
  /\ wordSets[1].name \in BankNames
  /\ wordSets[1].easy # <<>>

\* ----------------------------------------------------------------------- C22
\* Letter thresholds of section 4.3 of the spec, as <<char@0, char@mid,
\* char@last>>; -1 stands for "never".
LetterThresholds(difficulty) ==
  CASE difficulty = "easy" -> <<20, 10, -1>>
    [] difficulty = "medium" -> <<35, 15, -1>>
    [] difficulty = "hard" -> <<45, 30, 15>>

\* C22 as stated: on every Drawing screen of the LOBBY variant the character
\* at index 0 is revealed exactly when timer <= 20/35/45 (easy/medium/hard),
\* the one at index floor(len/2) exactly when timer <= 10/15/30, the one at
\* index len-1 exactly when the prompt is hard and timer <= 15, and no other
\* character is revealed.
C22_LetterThresholds ==
  Lobby("DRAWING") =>
    LET cells == hintDisplayLobby(gameState.currentPrompt, gameState.timer)
        len == Len(wordChars(gameState.currentPrompt))
        th == LetterThresholds(DifficultyOf(gameState.currentPrompt))
    IN \A i \in 0..(len - 1) :
         (i + 1 \in DOMAIN cells /\ cells[i + 1].isRevealed)
           <=> \/ (i = 0 /\ gameState.timer <= th[1])
               \/ (i = len \div 2 /\ gameState.timer <= th[2])
               \/ (i = len - 1 /\ gameState.timer <= th[3])

\* ----------------------------------------------------------------------- C23
\* The roster position of the player with a name (names are distinct in the
\* rosters of the model).
RosterPos(name) == CHOOSE i \in 1..NumPlayers : gameState.players[i].name = name

\* C23: in both variants a submit can be given in CONFIRM_SCORE, and the
\* submit step keeps the entries the history holds and appends exactly one,
\* with playerName = the drawer's name, word = the word of currentPrompt,
\* wasCorrect true exactly when the selection is non-empty, and winners = the
\* names of exactly the selected players, each once, in roster order.
C23_SubmitEntry ==
  /\ [](Stage = "CONFIRM_SCORE" => ENABLED (submitScore \/ finalizeScore))
  /\ [][SubmitStep =>
          LET n == Len(gameState.history)
              e == gameState'.history[n + 1]
          IN /\ Len(gameState'.history) = n + 1
             /\ SubSeq(gameState'.history, 1, n) = gameState.history
             /\ e.playerName = Drawer(gameState).name
             /\ gameState.currentPrompt # Null
             /\ e.word = gameState.currentPrompt.word
             /\ e.wasCorrect = (selectedGuesserIds # {})
             /\ Len(e.winners) = Cardinality(selectedGuesserIds)
             /\ Range(e.winners) =
                  {gameState.players[i].name :
                     i \in {k \in 1..NumPlayers :
                              gameState.players[k].id \in selectedGuesserIds}}
             /\ \A a, b \in 1..Len(e.winners) :
                  a < b => RosterPos(e.winners[a]) < RosterPos(e.winners[b])]_vars

\* Three players; the second one drew and both others were selected: the
\* entry lists them in roster order, around the drawer.
C23_Witness ==
  /\ Stage = "POST_TURN"
  /\ NumPlayers = 3
  /\ gameState.currentPlayerIndex = 1
  /\ Len(gameState.history) = 2
  /\ gameState.history[2].playerName = "Bob"
  /\ gameState.history[2].wasCorrect
  /\ gameState.history[2].winners = <<"Alice", "Cy">>

\* ----------------------------------------------------------------------- C24
\* The difficulties the Prompt type of the running variant admits
\* (src/types.ts:27, part_001:22).
Difficulties ==
  IF variant = "HOME" THEN {"easy", "medium", "hard", "custom"}
  ELSE {"easy", "medium", "hard"}

\* The submit of the running variant, given on a CONFIRM_SCORE screen whose
\* current prompt is p.
SubmitOn(p) ==
  LET gs == [gameState EXCEPT !.currentPrompt = p]
  IN IF variant = "HOME"
     THEN submitScoreUpdate(gs, gs.timer, p, selectedGuesserIds)
     ELSE finalizeScoreUpdate(gs, gs.timer, p, selectedGuesserIds)

StageOf(gs) ==
  IF variant = "HOME" /\ gs.phase = "PLAYING" THEN gs.subPhase ELSE gs.phase

\* C24: on every reachable CONFIRM_SCORE screen, for the current prompt, for a
\* prompt of each difficulty the variant's Prompt type admits and for an
\* absent prompt, the submit appends one entry, moves to POST_TURN and pays
\* base points of 1 (easy), 2 (medium), 3 (hard), 2 (custom), and 1 when the
\* prompt is absent: the drawer gains the base points when the selection is
\* non-empty, a selected guesser the base points plus the speed bonus, anyone
\* else nothing.
C24_BasePoints ==
  Stage = "CONFIRM_SCORE" =>
    \A p \in {[word |-> "Cat", category |-> "Animals", difficulty |-> d] :
                d \in Difficulties} \cup {Null, gameState.currentPrompt} :
      LET r == SubmitOn(p)
          speed == IF gameState.timer >= 30 THEN 1 ELSE 0
      IN /\ StageOf(r) = "POST_TURN"
         /\ Len(r.history) = Len(gameState.history) + 1
         /\ r.history[Len(r.history)].word = (IF p = Null THEN "" ELSE p.word)
         /\ Len(r.players) = NumPlayers
         /\ \A i \in 1..NumPlayers :
              r.players[i].score - gameState.players[i].score =
                IF i = gameState.currentPlayerIndex + 1
                THEN (IF selectedGuesserIds # {} THEN PointsOfTier(p) ELSE 0)
                ELSE IF gameState.players[i].id \in selectedGuesserIds
                THEN PointsOfTier(p) + speed
                ELSE 0

\* A hard prompt was submitted after the bonus time: drawer and guesser both
\* hold exactly 3 points.
C24_Witness ==
  /\ Stage = "POST_TURN"
  /\ Len(gameState.history) = 1
  /\ gameState.history[1].wasCorrect
  /\ gameState.currentPrompt # Null
  /\ gameState.currentPrompt.difficulty = "hard"
  /\ gameState.timer < 30
  /\ Drawer(gameState).score = 3
  /\ \E i \in 1..NumPlayers :
       /\ i # gameState.currentPlayerIndex + 1
       /\ gameState.players[i].score = 3

\* ----------------------------------------------------------------------- C25
\* A match of src/App.tsx played in custom mode: its pool was built from the
\* active bank, which cannot be edited while the match runs.
CustomMatch ==
  /\ variant = "HOME"
  /\ gameState.wordSource = "custom"
  /\ Stage \in InMatchStages

\* C25 as stated: every prompt built from a word bank has the fields word,
\* category and difficulty, and its difficulty is 'custom'.
C25_CustomDifficulty ==
  CustomMatch =>
    \A i \in 1..Len(allPrompts) :
      /\ DOMAIN allPrompts[i] = {"word", "category", "difficulty"}
      /\ allPrompts[i].difficulty = "custom"

\* C25 amended: every prompt built from a word bank has the fields word,
\* category and difficulty; its difficulty is that of the list of the bank
\* the word was typed into ('easy', 'medium' or 'hard', never 'custom') and
\* its category is that difficulty capitalised; the prompts of a difficulty
\* are the words of that list, in the order of the list.
C25_BankDifficulty ==
  CustomMatch =>
    /\ \A i \in 1..Len(allPrompts) :
         /\ DOMAIN allPrompts[i] = {"word", "category", "difficulty"}
         /\ allPrompts[i].difficulty \in {"easy", "medium", "hard"}
         /\ allPrompts[i].category =
              [easy |-> "Easy", medium |-> "Medium", hard |-> "Hard"]
                [allPrompts[i].difficulty]
    /\ \A d \in {"easy", "medium", "hard"} :
         LET ofD == Filter(allPrompts, {d})
         IN [i \in 1..Len(ofD) |-> ofD[i].word] = activeSet[d]

\* A match was started from a bank of three words that holds an easy, a
\* medium and a hard one.
C25_Witness ==
  /\ CustomMatch
  /\ Stage = "PRE_TURN"
  /\ Len(allPrompts) = 3
  /\ {allPrompts[i].difficulty : i \in 1..3} = {"easy", "medium", "hard"}

\* ----------------------------------------------------------------------- C26
\* The roster without the scores: ids and names, in order.
Roster(gs) ==
  [i \in 1..Len(gs.players) |->
     [id |-> gs.players[i].id, name |-> gs.players[i].name]]

\* The signals that add or remove a player.
RosterSignal == addPlayer \/ removePlayer \/ addPlayerLobby \/ removePlayerLobby

\* C26: in both variants, in every in-match phase currentPlayerIndex is a
\* valid index of the roster, the roster has at least 2 players and no signal
\* that adds or removes a player can be given; and every step that ends in a
\* phase of a match (the start of the match, the wait for the prompts and
\* every step inside the match) keeps the roster's ids, names and order.
C26_RosterFrozen ==
  /\ [](Stage \in InMatchStages =>
          /\ gameState.currentPlayerIndex >= 0
          /\ gameState.currentPlayerIndex < NumPlayers
          /\ NumPlayers >= 2)
  /\ [](Stage \in AllInMatchStages => ~ENABLED RosterSignal)
  /\ [][Stage' \in AllInMatchStages => Roster(gameState') = Roster(gameState)]_vars

\* The last of three players is being scored in the first round.
C26_Witness ==
  /\ Stage = "CONFIRM_SCORE"
  /\ Roster(gameState) = <<[id |-> "p1", name |-> "Alice"],
                           [id |-> "p2", name |-> "Bob"],
                           [id |-> "p3", name |-> "Cy"]>>
  /\ gameState.currentPlayerIndex = 2

\* ----------------------------------------------------------------------- C27
\* The steps that end a match's record: restart and exit (src/App.tsx) and
\* NEW GAME (part_000).
LeavesGameOver == Stage = "GAME_OVER" /\ Stage' \in {"HOME", "LOBBY"}

\* C27: in both variants every step other than restart/exit either leaves the
\* history as it is or appends exactly one entry at its end: the entries the
\* history held stay where they were, with the playerName, word, wasCorrect
\* and winners strings they were created with.
C27_HistoryAppendOnly ==
  [][~LeavesGameOver =>
       \/ gameState'.history = gameState.history
       \/ /\ Len(gameState'.history) = Len(gameState.history) + 1
          /\ SubSeq(gameState'.history, 1, Len(gameState.history))
               = gameState.history]_vars

\* src/App.tsx, second round: the entry of a solved first turn is still in
\* front of the entry of a failed second turn.
C27_Witness ==
  /\ variant = "HOME"
  /\ Stage = "PRE_TURN"
  /\ gameState.rounds = 2
  /\ Len(gameState.history) = 2
  /\ gameState.history[1].wasCorrect
  /\ gameState.history[1].playerName = "Alice"
  /\ ~gameState.history[2].wasCorrect
  /\ gameState.history[2].playerName = "Bob"

\* ----------------------------------------------------------------------- C28
\* One firing of the countdown of either variant.
Tick == tickHome \/ tickLobby

\* C28: in both variants the timer stays within 0..60; while the phase is
\* DRAWING a tick is due; every tick lowers the timer by exactly 1, keeps the
\* phase DRAWING while the timer was above 1 and ends the turn in POST_TURN
\* with timer = 0 when it was 1 (the 60th tick of a turn that started at 60
\* and was not interrupted); and, ticks being delivered fairly, no turn stays
\* in DRAWING forever.
C28_Countdown ==
  /\ [](gameState.timer \in 0..DEFAULT_TIME)
  /\ [](Stage = "DRAWING" => ENABLED Tick)
  /\ [][(Stage = "DRAWING" /\ Tick) =>
          /\ gameState'.timer = gameState.timer - 1
          /\ Stage' = IF gameState.timer = 1 THEN "POST_TURN" ELSE "DRAWING"]_vars
  /\ [][(Stage = "DRAWING" /\ Stage' = "DRAWING") => Tick]_vars
  /\ (Stage = "DRAWING") ~> (Stage # "DRAWING")

\* The second turn of a match of part_000 ran from 60 down to its timeout.
C28_Witness ==
  /\ variant = "LOBBY"
  /\ Stage = "POST_TURN"
  /\ gameState.currentPlayerIndex = 1
  /\ gameState.timer = 0

\* ----------------------------------------------------------------------- C29
\* C29: in both variants every PRE_TURN and every CHOOSE_PROMPT state has
\* timer = 60 and no current prompt, and the step from CHOOSE_PROMPT to
\* DRAWING keeps timer = 60, sets currentPrompt to one of the 3 prompts of
\* promptChoices (which it leaves as they are) and arms exactly one interval,
\* the one timerInterval refers to.
C29_EnteringDrawing ==
  /\ [](Stage \in {"PRE_TURN", "CHOOSE_PROMPT"} =>
          /\ gameState.timer = 60
          /\ gameState.currentPrompt = Null)
  /\ [][(Stage = "CHOOSE_PROMPT" /\ Stage' = "DRAWING") =>
          /\ gameState'.timer = 60
          /\ Len(gameState.promptChoices) = 3
          /\ gameState'.promptChoices = gameState.promptChoices
          /\ gameState'.currentPrompt \in Range(gameState.promptChoices)
          /\ intervals = {}
          /\ Cardinality(intervals') = 1
          /\ intervals' = {timerInterval'}]_vars

\* The second drawer of a match has just chosen a prompt, after a first turn
\* that was solved.
C29_Witness ==
  /\ Stage = "DRAWING"
  /\ gameState.timer = 60
  /\ gameState.currentPlayerIndex = 1
  /\ gameState.currentPrompt \in Range(gameState.promptChoices)
  /\ intervals = {timerInterval}
  /\ \E i \in 1..NumPlayers : gameState.players[i].score = 1

\* ----------------------------------------------------------------------- C30
\* The difficulties of the bucket choice k is drawn from.
BucketOf(k) ==
  CASE k = 1 -> IF variant = "HOME" THEN {"easy", "custom"} ELSE {"easy"}
    [] k = 2 -> {"medium"}
    [] k = 3 -> {"hard"}

\* Sampling is used by part_000 always, by src/App.tsx when the word source
\* is AI or the pool has more than 3 entries.
Sampled ==
  \/ variant = "LOBBY"
  \/ gameState.wordSource = "ai"
  \/ Len(allPrompts) > 3

\* C30: in every state of a match the three choices were drawn from their
\* buckets: when sampling is used, choice k is a prompt of the pool with a
\* difficulty of bucket k when the pool has such a prompt, and some prompt of
\* the pool otherwise; when it is not used (word bank of at most 3 entries)
\* the choices are the first 3 entries of the pool, in pool order.
C30_BucketedChoice ==
  Stage \in InMatchStages =>
    IF Sampled
    THEN /\ Len(gameState.promptChoices) = 3
         /\ \A k \in 1..3 :
              LET bucket == {p \in Range(allPrompts) : p.difficulty \in BucketOf(k)}
              IN gameState.promptChoices[k] \in
                   (IF bucket # {} THEN bucket ELSE Range(allPrompts))
    ELSE /\ Len(gameState.promptChoices) = 3
         /\ \A i \in 1..3 : gameState.promptChoices[i] = allPrompts[i]

\* A bank of two easy words, a medium and a hard one is sampled: the first
\* choice is the second easy word.
C30_Witness ==
  /\ variant = "HOME"
  /\ gameState.wordSource = "custom"
  /\ Stage = "PRE_TURN"
  /\ Len(allPrompts) = 4
  /\ gameState.promptChoices[1].word = "Sun"
  /\ gameState.promptChoices[2].difficulty = "medium"
  /\ gameState.promptChoices[3].difficulty = "hard"

\* ----------------------------------------------------------------------- C31
\* C31: in both variants the step from DRAWING to CONFIRM_SCORE leaves the
\* selection empty, whatever was selected in an earlier turn or in a
\* confirmation that was taken back; in CONFIRM_SCORE, and so at every
\* submit, the selection holds only ids of players of the roster other than
\* the drawer; and the submit pays no player outside the selection but the
\* drawer.
C31_SelectionReset ==
  /\ [](Stage = "CONFIRM_SCORE" => selectedGuesserIds \subseteq OtherPlayerIds)
  /\ [][/\ (Stage = "DRAWING" /\ Stage' = "CONFIRM_SCORE")
             => selectedGuesserIds' = {}
        /\ SubmitStep =>
             \A i \in 1..NumPlayers :
               gameState'.players[i].score # gameState.players[i].score
                 => \/ i = gameState.currentPlayerIndex + 1
                    \/ gameState.players[i].id \in selectedGuesserIds]_vars

\* The second turn of a match is being confirmed: nobody is selected yet,
\* though the first turn was submitted with a winner.
C31_Witness ==
  /\ Stage = "CONFIRM_SCORE"
  /\ selectedGuesserIds = {}
  /\ gameState.currentPlayerIndex = 1
  /\ Len(gameState.history) = 1
  /\ gameState.history[1].winners # <<>>

\* ----------------------------------------------------------------------- C32
\* C32: in both variants the submit step changes nothing but scores, history
\* and phase: the roster keeps its ids, names and order; a player who is
\* neither the drawer nor selected keeps the score, and so does the drawer
\* when nobody is selected; currentPlayerIndex, round, maxRounds, timer,
\* currentPrompt, promptChoices, the prompt pool, the selection, the armed
\* intervals and the word banks are unchanged.
C32_SubmitFrame ==
  [][SubmitStep =>
       /\ Roster(gameState') = Roster(gameState)
       /\ \A i \in 1..NumPlayers :
            (/\ gameState.players[i].id \notin selectedGuesserIds
             /\ (i # gameState.currentPlayerIndex + 1 \/ selectedGuesserIds = {}))
              => gameState'.players[i].score = gameState.players[i].score
       /\ gameState'.currentPlayerIndex = gameState.currentPlayerIndex
       /\ gameState'.rounds = gameState.rounds
       /\ gameState'.maxRounds = gameState.maxRounds
       /\ gameState'.timer = gameState.timer
       /\ gameState'.currentPrompt = gameState.currentPrompt
       /\ gameState'.promptChoices = gameState.promptChoices
       /\ gameState'.phase = IF variant = "HOME" THEN gameState.phase ELSE "POST_TURN"
       /\ UNCHANGED <<variant, allPrompts, selectedGuesserIds, timerInterval,
                      intervals, fetching, wordSets, selectedSetId,
                      isSettingsOpen>>]_vars

\* Three players, the first drew: one of the others was selected and paid,
\* the other one was not and still has no points.
C32_Witness ==
  /\ Stage = "POST_TURN"
  /\ NumPlayers = 3
  /\ gameState.currentPlayerIndex = 0
  /\ Cardinality(selectedGuesserIds) = 1
  /\ Len(gameState.history) = 1
  /\ Len(gameState.history[1].winners) = 1
  /\ \E i \in 2..3 : gameState.players[i].score = 0
  /\ \E i \in 2..3 : gameState.players[i].score > 0

\* ----------------------------------------------------------------------- C33
\* Prompts that differ in word and category within each difficulty.
PromptVariants ==
  [word : {"Cat", "Gravity"}, category : {"Animals", "Abstract"},
   difficulty : Difficulties]

ScoresOf(gs) == [i \in 1..Len(gs.players) |-> gs.players[i].score]

\* What of a submit the claim compares: the scores and the verdict of the
\* appended entry.
Verdict(gs) ==
  [scores |-> ScoresOf(gs),
   wasCorrect |-> gs.history[Len(gs.history)].wasCorrect,
   winners |-> gs.history[Len(gs.history)].winners]

\* C33: on every reachable CONFIRM_SCORE screen (one roster, drawer, timer
\* and selection), two submits whose prompts have the same difficulty give
\* the same scores, wasCorrect and winners, whatever the word and category
\* of the two prompts. The hint letters are computed while rendering from
\* timer and word and are no part of the state a submit reads.
C33_WordBlindScoring ==
  Stage = "CONFIRM_SCORE" =>
    \A p, q \in PromptVariants :
      p.difficulty = q.difficulty => Verdict(SubmitOn(p)) = Verdict(SubmitOn(q))

\* A confirmation with a guesser selected, on which the points are at stake
\* and the word on the screen is one of the compared ones.
C33_Witness ==
  /\ Stage = "CONFIRM_SCORE"
  /\ variant = "HOME"
  /\ selectedGuesserIds # {}
  /\ gameState.currentPrompt \in PromptVariants
  /\ gameState.currentPrompt.word = "Cat"
  /\ gameState.timer = 29

\* ----------------------------------------------------------------------- C34
\* Length-mask thresholds of section 4.3 of the spec.
MaskThreshold(difficulty) ==
  CASE difficulty = "easy" -> 30
    [] difficulty = "medium" -> 45
    [] difficulty = "hard" -> 60

\* C34: on every Drawing screen of the LOBBY variant the length mask is
\* shown exactly when timer <= 30 (easy), 45 (medium), 60 (hard); with a
\* hard prompt it is shown on every Drawing screen; when shown it has one
\* cell per character of the word, and no cell is on the screen otherwise.
C34_LengthMask ==
  Lobby("DRAWING") =>
    LET prompt == gameState.currentPrompt
        shown == showLengthHint(prompt, gameState.timer)
    IN /\ shown <=> gameState.timer <= MaskThreshold(DifficultyOf(prompt))
       /\ DifficultyOf(prompt) = "hard" => shown
       /\ shown => Len(hintDisplayLobby(prompt, gameState.timer))
                     = Len(wordChars(prompt))
       /\ ~shown => hintDisplayLobby(prompt, gameState.timer) = <<>>

\* The first Drawing screen of a hard prompt: the mask of "Gravity" is shown
\* at 60 seconds, with no letter revealed.
C34_Witness ==
  /\ Lobby("DRAWING")
  /\ gameState.timer = 60
  /\ gameState.currentPrompt # Null
  /\ gameState.currentPrompt.difficulty = "hard"
  /\ Len(hintDisplayLobby(gameState.currentPrompt, 60)) = 7
  /\ \A k \in 1..7 : ~hintDisplayLobby(gameState.currentPrompt, 60)[k].isRevealed

\* ----------------------------------------------------------------------- C35
\* The part of the state the game logic of both variants works on.
Machine == [gs |-> gameState, pool |-> allPrompts, sel |-> selectedGuesserIds]

\* The phase mapping: HOME <-> LOBBY, a sub-phase of PLAYING <-> the flat
\* phase of that name, GAME_OVER <-> GAME_OVER.
FlatPhase(gs) ==
  IF gs.phase = "PLAYING" THEN gs.subPhase
  ELSE IF gs.phase = "HOME" THEN "LOBBY"
  ELSE gs.phase

\* The state of src/unnamed/part_000 that corresponds to a state of
\* src/App.tsx.
toLobby(m) ==
  [m EXCEPT !.gs = [players |-> m.gs.players,
                    currentPlayerIndex |-> m.gs.currentPlayerIndex,
                    currentPrompt |-> m.gs.currentPrompt,
                    promptChoices |-> m.gs.promptChoices,
                    phase |-> FlatPhase(m.gs),
                    timer |-> m.gs.timer,
                    rounds |-> m.gs.rounds,
                    maxRounds |-> m.gs.maxRounds,
                    history |-> m.gs.history]]

\* What corresponding states have in common: everything but the history
\* (see C2) and the fields only src/App.tsx has.
View(m, flat) ==
  [phase |-> flat, players |-> m.gs.players,
   currentPlayerIndex |-> m.gs.currentPlayerIndex,
   currentPrompt |-> m.gs.currentPrompt,
   promptChoices |-> m.gs.promptChoices, timer |-> m.gs.timer,
   rounds |-> m.gs.rounds, maxRounds |-> m.gs.maxRounds,
   pool |-> m.pool, sel |-> m.sel]

HomeView(m) == View(m, FlatPhase(m.gs))
LobbyView(m) == View(m, m.gs.phase)

\* The pools a settled call of the generator can hand to a start.
AIPools ==
  {generatePrompts(o).value :
     o \in {x \in GeneratorOutcomes : generatePrompts(x).settled # "rejected"}}

SharedEvents ==
  {"start", "pool", "ready", "choose", "tick", "markCorrect", "toggle",
   "cancel", "submit", "skip", "nextTurn", "nextRound", "endEarly"}

OthersOf(gs) ==
  {gs.players[i].id : i \in (1..Len(gs.players)) \ {gs.currentPlayerIndex + 1}}

\* The states an event can lead to in src/App.tsx (word source 'ai',
\* settings closed); none when no screen element gives the event.
HomeStep(e, m) ==
  LET gs == m.gs
      at(sub) == gs.phase = "PLAYING" /\ gs.subPhase = sub
      setups(idx, round) ==
        {[m EXCEPT !.gs = setupTurn(gs, idx, round, c)] :
           c \in setupTurnChoices(m.pool, "ai")}
  IN CASE e = "start" ->
            IF gs.phase # "HOME" THEN {}
            ELSE IF tooFewPlayers(gs) THEN {m}
            ELSE {[m EXCEPT !.gs = [gs EXCEPT !.phase = "PLAYING",
                                              !.subPhase = "GETTING_PROMPTS"]]}
       [] e = "pool" ->
            IF ~at("GETTING_PROMPTS") THEN {}
            ELSE UNION {{[gs |-> setupTurn(gs, 0, 1, c), pool |-> l,
                          sel |-> m.sel] : c \in setupTurnChoices(l, "ai")} :
                          l \in AIPools}
       [] e = "ready" ->
            IF at("PRE_TURN")
            THEN {[m EXCEPT !.gs = [gs EXCEPT !.subPhase = "CHOOSE_PROMPT"]]}
            ELSE {}
       [] e = "choose" ->
            IF at("CHOOSE_PROMPT")
            THEN {[m EXCEPT !.gs = selectPromptUpdate(gs, p)] :
                    p \in Range(gs.promptChoices)}
            ELSE {}
       [] e = "tick" ->
            IF at("DRAWING")
            THEN {[m EXCEPT !.gs = tickUpdaterHome(gs, NoInterval, {}).gs]}
            ELSE {}
       [] e = "markCorrect" ->
            IF at("DRAWING")
            THEN {[m EXCEPT !.gs = [gs EXCEPT !.subPhase = "CONFIRM_SCORE"],
                            !.sel = confirmSolvedSelection(m.sel)]}
            ELSE {}
       [] e = "toggle" ->
            IF at("CONFIRM_SCORE")
            THEN {[m EXCEPT !.sel = Toggle(m.sel, id)] : id \in OthersOf(gs)}
            ELSE {}
       [] e = "cancel" ->
            IF at("CONFIRM_SCORE")
            THEN {[m EXCEPT !.gs = backToDrawingUpdate(gs)]}
            ELSE {}
       [] e = "submit" ->
            IF at("CONFIRM_SCORE")
            THEN {[m EXCEPT !.gs = submitScoreUpdate(gs, gs.timer,
                                                     gs.currentPrompt, m.sel)]}
            ELSE {}
       [] e = "skip" ->
            IF at("DRAWING") THEN {[m EXCEPT !.gs = skipTurnUpdate(gs)]} ELSE {}
       [] e = "nextTurn" ->
            IF ~at("POST_TURN") THEN {}
            ELSE IF nextIdxOf(gs) = 0 THEN {[m EXCEPT !.gs = roundEndUpdate(gs)]}
            ELSE setups(nextIdxOf(gs), gs.rounds)
       [] e = "nextRound" ->
            IF ~at("ROUND_LEADERBOARD") THEN {}
            ELSE IF lastRound(gs)
            THEN {[m EXCEPT !.gs = [gs EXCEPT !.phase = "GAME_OVER",
                                              !.subPhase = "null"]]}
            ELSE setups(0, gs.rounds + 1)
       [] e = "endEarly" ->
            IF \E sub \in endEarlyOffered : at(sub)
            THEN {[m EXCEPT !.gs = endEarlyUpdate(gs)]}
            ELSE {}

\* The same for src/unnamed/part_000.
LobbyStep(e, m) ==
  LET gs == m.gs
      at(ph) == gs.phase = ph
      setups(idx, round) ==
        {[m EXCEPT !.gs = startTurnSetup(gs, idx, round, c)] :
           c \in startTurnSetupChoices(m.pool)}
  IN CASE e = "start" ->
            IF ~at("LOBBY") THEN {}
            ELSE IF tooFewPlayers(gs) THEN {m}
            ELSE {[m EXCEPT !.gs = [gs EXCEPT !.phase = "GETTING_PROMPTS"]]}
       [] e = "pool" ->
            IF ~at("GETTING_PROMPTS") THEN {}
            ELSE UNION {{[gs |-> startTurnSetup(gs, 0, 1, c), pool |-> l,
                          sel |-> m.sel] : c \in startTurnSetupChoices(l)} :
                          l \in AIPools}
       [] e = "ready" ->
            IF at("PRE_TURN")
            THEN {[m EXCEPT !.gs = [gs EXCEPT !.phase = "CHOOSE_PROMPT"]]}
            ELSE {}
       [] e = "choose" ->
            IF at("CHOOSE_PROMPT")
            THEN {[m EXCEPT !.gs = choosePromptUpdate(gs, p)] :
                    p \in Range(gs.promptChoices)}
            ELSE {}
       [] e = "tick" ->
            IF at("DRAWING")
            THEN {[m EXCEPT !.gs = tickUpdaterLobby(gs, NoInterval, {}).gs]}
            ELSE {}
       [] e = "markCorrect" ->
            IF at("DRAWING")
            THEN {[m EXCEPT !.gs = [gs EXCEPT !.phase = "CONFIRM_SCORE"],
                            !.sel = {}]}
            ELSE {}
       [] e = "toggle" ->
            IF at("CONFIRM_SCORE")
            THEN {[m EXCEPT !.sel = Toggle(m.sel, id)] : id \in OthersOf(gs)}
            ELSE {}
       [] e = "cancel" ->
            IF at("CONFIRM_SCORE")
            THEN {[m EXCEPT !.gs = [gs EXCEPT !.phase = "DRAWING"]]}
            ELSE {}
       [] e = "submit" ->
            IF at("CONFIRM_SCORE")
            THEN {[m EXCEPT !.gs = finalizeScoreUpdate(gs, gs.timer,
                                                       gs.currentPrompt, m.sel)]}
            ELSE {}
       [] e = "skip" ->
            IF at("DRAWING") THEN {[m EXCEPT !.gs = surrenderTurnUpdate(gs)]}
            ELSE {}
       [] e = "nextTurn" ->
            IF ~at("POST_TURN") THEN {}
            ELSE IF nextPlayerIdxOf(gs) = 0
            THEN {[m EXCEPT !.gs = roundEndedUpdate(gs)]}
            ELSE setups(nextPlayerIdxOf(gs), gs.rounds)
       [] e = "nextRound" ->
            IF ~at("ROUND_LEADERBOARD") THEN {}
            ELSE IF pastLastRound(gs)
            THEN {[m EXCEPT !.gs = [gs EXCEPT !.phase = "GAME_OVER"]]}
            ELSE setups(0, gs.rounds + 1)
       [] e = "endEarly" ->
            IF \E ph \in endGameEarlyOffered : at(ph)
            THEN {[m EXCEPT !.gs = endGameEarlyUpdate(gs)]}
            ELSE {}

\* The running variant's steps.
VariantStep(e, m) == IF variant = "HOME" THEN HomeStep(e, m) ELSE LobbyStep(e, m)

\* A match on a generated pool is running.
InMatch ==
  /\ Stage \notin {"HOME", "LOBBY", "GAME_OVER"}
  /\ variant = "HOME" => gameState.wordSource = "ai"

\* The states of src/App.tsx the comparison starts from: AI word source,
\* settings dialog closed.
Comparable ==
  variant = "HOME" /\ gameState.wordSource = "ai" /\ ~isSettingsOpen

\* Both variants take the event from corresponding states to corresponding
\* states, or neither accepts it.
AgreeOn(e) ==
  {HomeView(x) : x \in HomeStep(e, Machine)}
    = {LobbyView(y) : y \in LobbyStep(e, toLobby(Machine))}

EndEarlyLobbyOnly == {"CHOOSE_PROMPT", "ROUND_LEADERBOARD"}

StoredConfiguration ==
  [sketchit_wordsets_v2 |-> Item(stringify(wordSets)),
   sketchit_selected_set_id |-> Item(selectedSetId),
   sketchit_wordsource |-> Item(gameState.wordSource)]

\* C36: src/App.tsx starts, with nothing stored, with the single bank
\* 'Classic Pack' of id 'default', the selected id 'default' and the mode
\* 'ai'; and in every reachable state each of the three keys holds the text
\* of the value in memory (the banks as JSON), so that reading the store back
\* gives the banks, the selected id and the mode in memory.
C36_StorageFollows ==
  /\ variant = "HOME" =>
       /\ Len(wordSets) = 1
       /\ wordSets[1].id = "default" /\ wordSets[1].name = "Classic Pack"
       /\ selectedSetId = "default"
       /\ gameState.wordSource = "ai"
  /\ [](variant = "HOME" =>
          /\ localStorage = StoredConfiguration
          /\ loadWordSetsFrom(localStorage) = wordSets
          /\ getItemOr(localStorage, "sketchit_selected_set_id", "default")
               = selectedSetId
          /\ getItemOr(localStorage, "sketchit_wordsource", "ai")
               = gameState.wordSource)

\* Two banks are kept, the second one selected, and the mode is 'custom':
\* all three keys were rewritten since the start.
C36_Witness ==
  /\ variant = "HOME"
  /\ Len(wordSets) = 2
  /\ selectedSetId = wordSets[2].id
  /\ gameState.wordSource = "custom"
  /\ localStorage.sketchit_selected_set_id = Item(wordSets[2].id)
  /\ localStorage.sketchit_wordsource = Item("custom")

\* ----------------------------------------------------------------------- C37
\* C37: in both variants no timer is armed in CONFIRM_SCORE and no step
\* taken there (toggle, back, submit) changes the timer; pressing "mark
\* correct" keeps the timer it was pressed at; and a submit pays the speed
\* bonus by the timer of the state it is given in: each selected guesser
\* gains one point more than the drawer exactly when that timer is >= 30.
C37_TimerFrozen ==
  /\ [](Stage = "CONFIRM_SCORE" => intervals = {})
  /\ [][/\ Stage = "CONFIRM_SCORE" => gameState'.timer = gameState.timer
        /\ (Stage = "DRAWING" /\ Stage' = "CONFIRM_SCORE")
             => gameState'.timer = gameState.timer
        /\ SubmitStep =>
             \A i \in 1..NumPlayers :
               gameState.players[i].id \in selectedGuesserIds =>
                 (gameState'.players[i].score - gameState.players[i].score)
                 - (gameState'.players[gameState.currentPlayerIndex + 1].score
                    - gameState.players[gameState.currentPlayerIndex + 1].score)
                 = IF gameState.timer >= SPEED_BONUS_THRESHOLD THEN 1 ELSE 0]_vars

\* A confirmation entered with 29 seconds left in which a guesser has been
\* toggled: the submit given here pays no bonus.
C37_Witness ==
  /\ Stage = "CONFIRM_SCORE"
  /\ gameState.timer = 29
  /\ Cardinality(selectedGuesserIds) = 2
  /\ intervals = {}

\* ----------------------------------------------------------------------- C38
\* The values of the enums of src/types.ts.
GamePhases == {"HOME", "PLAYING", "GAME_OVER"}
PlayingSubPhases ==
  {"GETTING_PROMPTS", "PRE_TURN", "CHOOSE_PROMPT", "DRAWING", "CONFIRM_SCORE",
   "POST_TURN", "ROUND_LEADERBOARD"}

\* C38: in every reachable state of src/App.tsx the phase is one of HOME,
\* PLAYING, GAME_OVER; subPhase is one of the seven sub-phases exactly when
\* the phase is PLAYING and null otherwise.
C38_SubPhaseConsistent ==
  variant = "HOME" =>
    /\ gameState.phase \in GamePhases
    /\ gameState.subPhase \in PlayingSubPhases \cup {"null"}
    /\ gameState.subPhase # "null" <=> gameState.phase = "PLAYING"

\* A match was started on a pool of prompts, came to GAME_OVER and was left
\* for the home screen: the sub-phase went back to null with the phase.
C38_Witness ==
  /\ variant = "HOME"
  /\ gameState.phase = "HOME"
  /\ gameState.subPhase = "null"
  /\ allPrompts # <<>>
  /\ gameState.players = <<>>

\* ----------------------------------------------------------------------- C39
\* The hint of the running variant: its cells, whether the length mask is
\* on the screen, and the isRevealed flag computed for an index.
HintCells(prompt, timer) ==
  IF variant = "HOME" THEN hintDisplayHome(prompt, timer)
  ELSE hintDisplayLobby(prompt, timer)

MaskVisible(prompt, timer) ==
  IF variant = "HOME" THEN revealLen(timer) ELSE showLengthHint(prompt, timer)

LetterFlag(prompt, timer, i) ==
  IF variant = "HOME"
  THEN isRevealedHome(timer, Len(wordChars(prompt)), i)
  ELSE isRevealedLobby(timer, hintTriggers(DifficultyOf(prompt)),
                       Len(wordChars(prompt)), i)

\* The positions shown as letters.
RevealedAt(prompt, timer) ==
  LET cells == HintCells(prompt, timer)
  IN {k \in DOMAIN cells : cells[k].isRevealed}

\* The prompts the hints are compared on in a state: the prompt of the
\* turn, and a word of three letters and one with a space at its middle
\* index in the difficulty of the turn.
HintPrompts ==
  {gameState.currentPrompt}
  \cup {[word |-> w, category |-> "Any",
         difficulty |-> DifficultyOf(gameState.currentPrompt)] :
          w \in {"Cat", "Eiffel Tower"}}

\* C39: on every Drawing screen of both variants, with timer t, for the
\* prompt of the turn and for the compared words in its difficulty: what is revealed at t is still revealed at t - 1 and
\* a mask visible at t is visible at t - 1; the isRevealed flag of a
\* character is set only when the mask is visible; a position shown as a
\* letter never holds a space. And over every step that stays in Drawing
\* with the same prompt the revealed positions of that prompt do not shrink
\* and its mask does not disappear.
C39_HintsMonotone ==
  /\ [](Stage = "DRAWING" =>
          \A p \in HintPrompts :
            LET t == gameState.timer
                word == wordChars(p)
                cells == HintCells(p, t)
                now == RevealedAt(p, t)
            IN /\ t >= 1
               /\ now \subseteq RevealedAt(p, t - 1)
               /\ MaskVisible(p, t) => MaskVisible(p, t - 1)
               /\ \A i \in 0..(Len(word) - 1) :
                    (LetterFlag(p, t, i) /\ word[i + 1] # " ")
                      => (MaskVisible(p, t) /\ i + 1 \in now)
               /\ \A k \in now : word[k] # " " /\ ~cells[k].gap)
  /\ [][(/\ Stage = "DRAWING" /\ Stage' = "DRAWING"
         /\ gameState'.currentPrompt = gameState.currentPrompt)
          => /\ gameState'.timer <= gameState.timer
             /\ RevealedAt(gameState.currentPrompt, gameState.timer)
                  \subseteq RevealedAt(gameState.currentPrompt, gameState'.timer)
             /\ MaskVisible(gameState.currentPrompt, gameState.timer)
                  => MaskVisible(gameState.currentPrompt, gameState'.timer)]_vars

\* A Drawing screen of src/App.tsx with 35 seconds left: the first letter
\* of the drawn word is shown, and for "Eiffel Tower" the middle index, which
\* is due now, is the space and is shown as a gap.
C39_Witness ==
  /\ Playing("DRAWING")
  /\ gameState.timer = 35
  /\ 1 \in RevealedAt(gameState.currentPrompt, 35)
  /\ LET p == [word |-> "Eiffel Tower", category |-> "Any", difficulty |-> "medium"]
     IN /\ LetterFlag(p, 35, 6)
        /\ HintCells(p, 35)[7].gap
        /\ RevealedAt(p, 35) = {1}

====
